---- MODULE Spec2Model ----
(***************************************************************************)
(* freedom-port-control: the Mapping Controller (PortControl), the NAT-PMP *)
(* and PCP engines and the UPnP engine, as one state machine.              *)
(*                                                                         *)
(* Every asynchronous call of the program is a record in `calls` from the  *)
(* moment it is invoked to the moment its promise settles; a step of the   *)
(* model is one handler of the program (a promise continuation, a timer    *)
(* callback, a completed wave of UDP requests, a completed HTTP request).  *)
(* `ret` holds the promises that settled in the last step.                 *)
(***************************************************************************)
EXTENDS Integers, Sequences, FiniteSets, TLC

VARIABLES
  activeMappings,        \* PortControl.prototype.activeMappings: extPort -> Mapping
  routerIpCache,         \* PortControl.prototype.routerIpCache: sequence of router IPs
  protocolSupportCache,  \* PortControl.prototype.protocolSupportCache
  timers,                \* the pending setTimeout callbacks of the engines
  calls,                 \* the calls in flight: id -> call record
  invoked,               \* the number of calls made so far, per kind of call
  ret                    \* the promises settled by the last step: id -> return event

vars == <<activeMappings, routerIpCache, protocolSupportCache, timers, calls, invoked, ret>>

----------------------------------------------------------------------------
(* Bounds and program constants *)

\* The number of calls of a run that the application or a timer makes. Such a call
\* has id 1..MaxCalls; the k-th call that call p makes itself has id ChildId(p, k).
MaxCalls == 3

\* The number of calls of each kind among them: addMapping*, deleteMapping*, close,
\* and the refreshes that timers make.
MaxAdds == 1
MaxDeletes == 2
MaxCloses == 1
MaxRefreshes == 1

\* The number of calls that follow the probe, where the application probes first
MaxCallsAfterProbe == 1

\* The number of mappings added before close(), where the application adds and closes
MaxAddsBeforeClose == 2

\* The number of mappings added, where the application adds them at the same time
MaxConcurrentAdds == 2

\* The number of calls, one after the other, where the requests of a wave are
\* followed one by one
MaxRaceCalls == 2

ChildId(p, k) == 10 * p + k

\* utils.ROUTER_IPS, cut down to two representative router addresses
\* (identified by their index in the list).
ROUTER_IPS == <<1, 2>>

\* The routers of ROUTER_IPS whose /24 subnet matches one of the host's private IPs.
LocalSubnetRouters == {2}

\* Port numbers a caller asks for (0: the NAT chooses) and port numbers a router grants.
IntPorts == {1}
ReqExtPorts == {0, 1, 2}
GrantPorts == {1, 2}

\* Lifetimes a caller asks for (0: indefinitely) and lifetimes a router grants, in seconds.
ReqLifetimes == {0, 1, 2}
GrantLifetimes == {1}

NAT_PMP_PROBE_PORT == 55555
PCP_PROBE_PORT == 55556
UPNP_PROBE_PORT == 55557
ProbeLifetime == 120

\* 24*60*60: the refresh period of a mapping requested with lifetime 0
DaySeconds == 24 * 60 * 60

\* JavaScript's undefined, per field type (a lifetime is never negative, a router
\* IP is never 0, a timer id and a nonce are never empty).
NoTimeout == <<>>
NoLifetime == -1
NoIp == 0
NoNonce == <<>>
NoErrInfo == ""
NoControlUrl == ""
NoDeleter == [protocol |-> "none", extPort |-> -1, routerIpCache |-> "none", controlUrl |-> NoControlUrl]

\* new utils.Mapping(), then mapping.internalPort and mapping.protocol set by the engine.
\* obj is the identity of the JavaScript object: <<id of the call, protocol of the engine>>
\* that made it. The timer an engine invocation arms carries the same identity.
\* requested and requestedLifetime are not fields of the object: they remember the
\* external port and the lifetime that the call which made the object asked for.
Mapping(obj, intPort, protocol) ==
  [obj |-> obj, internalPort |-> intPort, externalPort |-> -1, externalIp |-> NoIp,
   lifetime |-> NoLifetime, protocol |-> protocol, timeoutId |-> NoTimeout,
   nonce |-> NoNonce, errInfo |-> NoErrInfo, deleter |-> NoDeleter, requested |-> -1,
   requestedLifetime |-> NoLifetime]

----------------------------------------------------------------------------
(* Sequence helpers *)

Range(s) == {s[i] : i \in DOMAIN s}

\* Array.prototype.indexOf(x) === -1
NotIn(s, x) == \A i \in DOMAIN s : s[i] # x

RECURSIVE SelectInOrder(_, _)
\* the elements of s that are in set S, in the order of s
SelectInOrder(s, S) ==
  IF s = <<>> THEN <<>>
  ELSE (IF Head(s) \in S THEN <<Head(s)>> ELSE <<>>) \o SelectInOrder(Tail(s), S)

RECURSIVE Dedup(_)
Dedup(s) ==
  IF s = <<>> THEN <<>>
  ELSE LET front == Dedup(SubSeq(s, 1, Len(s) - 1))
           last == s[Len(s)]
       IN IF NotIn(front, last) THEN Append(front, last) ELSE front

\* utils.arrAdd(a, b): the union of two arrays, a's elements first, no duplicates
arrAdd(a, b) == Dedup(a \o b)

\* utils.arrDiff(a, b): the elements of a that are not in b, in a's order
arrDiff(a, b) == SelectInOrder(a, Range(a) \ Range(b))

\* utils.filterRouterIps(privateIps): the default routers in a subnet of the host
filterRouterIps == SelectInOrder(ROUTER_IPS, LocalSubnetRouters)

\* The table without key p (JavaScript's delete activeMappings[p])
DeleteKey(table, p) == [k \in DOMAIN table \ {p} |-> table[k]]

\* The table with table[p] = m
SetKey(table, p, m) == [k \in DOMAIN table \cup {p} |-> IF k = p THEN m ELSE table[k]]

\* clearTimeout(id)
clearTimeout(ts, id) == {t \in ts : t.id # id}

----------------------------------------------------------------------------
(* The environment: what the routers and the host answer *)

NULL == [null |-> TRUE]

\* A NAT-PMP or PCP reply to a MAP request, as far as the engines read it: the
\* mapped external port and the granted lifetime (the result code is not read).
AddResponses == [null : {FALSE}, externalPort : GrantPorts, lifetime : GrantLifetimes]

\* A reply to a deletion request: only the result code is read.
DeleteResponses == [null : {FALSE}, resultCode : {0, 1, 8}]

\* The responses of one wave: one entry per target, NULL where the request timed out.
WaveResponses(routerIps, responses) == [DOMAIN routerIps -> responses \cup {NULL}]

\* The indices of the targets that answered
Answered(responses) == {i \in DOMAIN responses : ~responses[i].null}

Max(S) == CHOOSE x \in S : \A y \in S : y <= x
Min(S) == CHOOSE x \in S : \A y \in S : x <= y

ControlUrls == {"http://r2/ctl"}

\* <errorDescription> of a HTTP 500 answer to AddPortMapping
ErrorDescriptions == {"ConflictInMappingEntry", "ActionFailed"}

\* 'AddPortMapping Error: ' + errorDescription
AddPortMappingError(errorDescription) ==
  IF errorDescription = "ConflictInMappingEntry"
  THEN "AddPortMapping Error: ConflictInMappingEntry"
  ELSE "AddPortMapping Error: ActionFailed"

----------------------------------------------------------------------------
(* The calls in flight *)

\* The id of the next call that the application or a timer makes
nextId == 1 + invoked["add"] + invoked["delete"] + invoked["close"] + invoked["probe"]
            + invoked["refresh"]

NoCalls == [i \in {} |-> NULL]
NoRet == [i \in {} |-> NULL]

\* A call of an engine's addMapping, directly (api) or on behalf of parent.
\* responses are the values that the requests of the wave in flight have been
\* settled with so far, where the requests are followed one by one, and arrivals
\* is the order in which their responses came. ssdpSocket is the UDP socket that
\* upnp.js sendSsdpRequest opens for the discovery.
AddCall(api, mode, parent, intPort, extPort, lifetime) ==
  [op |-> "add", api |-> api, mode |-> mode, parent |-> parent,
   intPort |-> intPort, extPort |-> extPort, lifetime |-> lifetime,
   protocol |-> "none", stage |-> "new", mapping |-> Mapping(<<0, "none">>, intPort, "none"),
   routerIpCache |-> "shared", routerIps |-> <<>>, otherRouterIps |-> <<>>,
   controlUrl |-> NoControlUrl, engines |-> <<>>, outcomes |-> <<>>, sent |-> 0,
   responses |-> <<>>, arrivals |-> <<>>, ssdpSocket |-> "none"]

\* The engine's addMapping is invoked: its Mapping is made and its first request is under way.
\* NAT-PMP sends to all of ROUTER_IPS at once; PCP first asks for the private IPs;
\* UPnP discovers the control URL unless one was passed in.
StartEngine(id, c, protocol) ==
  [c EXCEPT !.protocol = protocol,
            !.engines = Append(@, protocol),
            !.mapping = [Mapping(<<id, protocol>>, c.intPort, protocol)
                           EXCEPT !.requested = c.extPort, !.requestedLifetime = c.lifetime],
            !.stage = CASE protocol = "natPmp" -> "wave"
                        [] protocol = "pcp" -> "ips"
                        [] OTHER -> IF c.controlUrl = NoControlUrl THEN "ssdp" ELSE "soap",
            !.routerIps = IF protocol = "natPmp" THEN ROUTER_IPS ELSE <<>>,
            !.sent = IF protocol = "natPmp" THEN @ + Len(ROUTER_IPS) ELSE @,
            !.ssdpSocket = IF protocol = "upnp" /\ c.controlUrl = NoControlUrl
                           THEN "open" ELSE @]

----------------------------------------------------------------------------
(* Promises that settle, and the handlers that wait for them *)

Event(c, status, value) == [call |-> c, status |-> status, value |-> value]

Without(cs, id) == [k \in DOMAIN cs \ {id} |-> cs[k]]

ProbeApis == {"probePmpSupport", "probePcpSupport", "probeUpnpSupport"}

ConflictErrInfo == AddPortMappingError("ConflictInMappingEntry")

\* A probe that only counts a successful Mapping as support
probeSuccessOnly(protocol, mapping) == mapping.externalPort # -1

\* probeSupport's handler of the probe's Mapping: is the protocol supported?
\* UPnP also counts the router's ConflictInMappingEntry error as support.
probeSupport(protocol, mapping) ==
  IF protocol = "upnp" /\ mapping.errInfo # NoErrInfo /\ mapping.errInfo = ConflictErrInfo
  THEN TRUE
  ELSE mapping.externalPort # -1

\* What the promise of an add call is fulfilled with: the Mapping, or the probe's boolean
ReturnValue(c, mapping) ==
  IF c.api \in ProbeApis THEN probeSupport(c.protocol, mapping) ELSE mapping

ProbeSlot(api) ==
  CASE api = "probePmpSupport" -> "natPmp"
    [] api = "probePcpSupport" -> "pcp"
    [] OTHER -> "upnp"

\* Promise.all of probeProtocolSupport has all its four values
ProbeComplete(p) == DOMAIN p.support = {"natPmp", "pcp", "upnp"} /\ p.urlDone

\* probeProtocolSupport's handler: the four results are written to protocolSupportCache
probeProtocolSupportCache(p) ==
  [natPmp |-> p.support["natPmp"], pcp |-> p.support["pcp"], upnp |-> p.support["upnp"],
   upnpControlUrl |-> p.upnpControlUrl]

\* probeProtocolSupport after one more of its four promises is fulfilled (p is its record then)
ProbeProgress(cs, psc, pid, p, events) ==
  IF ProbeComplete(p)
  THEN [calls |-> Without(cs, pid),
        ret |-> events @@ (pid :> Event(p, "resolved", p.support)),
        psc |-> probeProtocolSupportCache(p)]
  ELSE [calls |-> [cs EXCEPT ![pid] = p], ret |-> events, psc |-> psc]

\* A settlement that the Promise.all of close() never hears of
SettledUnheard(cs, psc, id, c, status, value) ==
  [calls |-> Without(cs, id), ret |-> (id :> Event(c, status, value)), psc |-> psc]

\* The promise of call id (record c) settles: the call leaves `calls`, and the
\* Promise.all of close() or probeProtocolSupport() that waits for it goes on.
Settled(cs, psc, id, c, status, value) ==
  LET rest == Without(cs, id)
      e == (id :> Event(c, status, value))
      pid == c.parent
  IN IF pid \notin DOMAIN rest
     THEN [calls |-> rest, ret |-> e, psc |-> psc]
     ELSE IF rest[pid].op = "close"
     THEN LET p == [rest[pid] EXCEPT !.children = @ \ {id}]
          IN IF p.children = {}
             THEN [calls |-> Without(rest, pid),
                   ret |-> e @@ (pid :> Event(p, "resolved", TRUE)), psc |-> psc]
             ELSE [calls |-> [rest EXCEPT ![pid] = p], ret |-> e, psc |-> psc]
     ELSE IF status = "rejected"
     THEN [calls |-> Without(rest, pid),
           ret |-> e @@ (pid :> Event(rest[pid], "rejected", FALSE)), psc |-> psc]
     ELSE ProbeProgress(rest, psc, pid,
                        [rest[pid] EXCEPT !.support = (ProbeSlot(c.api) :> value) @@ @], e)

\* A fallback that goes on to the next protocol whatever the Mapping
FallbackAfterSuccess(protocol, externalPort) ==
  CASE protocol = "natPmp" -> "pcp"
    [] protocol = "pcp" -> "upnp"
    [] OTHER -> "none"

\* PortControl.addMapping without probe data: after a failure Mapping of NAT-PMP
\* try PCP, after a failure Mapping of PCP try UPnP; "none": return the Mapping.
FallbackProtocol(protocol, externalPort) ==
  IF externalPort # -1 THEN "none"
  ELSE CASE protocol = "natPmp" -> "pcp"
         [] protocol = "pcp" -> "upnp"
         [] OTHER -> "none"

\* The promise of an engine's addMapping is fulfilled with Mapping m
AddFulfilled(cs, psc, id, c, m) ==
  LET c1 == [c EXCEPT !.mapping = m, !.outcomes = Append(@, m.externalPort), !.stage = "done"]
      next == IF c1.mode = "chain" THEN FallbackProtocol(c1.protocol, m.externalPort) ELSE "none"
  IN IF next # "none"
     THEN [calls |-> [cs EXCEPT ![id] = StartEngine(id, c1, next)], ret |-> NoRet, psc |-> psc]
     ELSE Settled(cs, psc, id, c1, "resolved", ReturnValue(c1, m))

----------------------------------------------------------------------------
(* Saving a Mapping and arming its timer *)

Timer(kind, protocol, c, m, lifetime, delay, cache) ==
  [id |-> m.obj, kind |-> kind, protocol |-> protocol, intPort |-> c.intPort,
   extPort |-> m.externalPort, lifetime |-> lifetime, delay |-> delay, routerIpCache |-> cache]

\* var reqLifetime = (lifetime === 0) ? 24*60*60 : lifetime
reqLifetime(lifetime) == IF lifetime = 0 THEN DaySeconds ELSE lifetime

\* Timers whose refresh asks for the whole requested lifetime again
EngineTimersFullLifetime(protocol, c, m, cache) ==
  LET dLifetime == reqLifetime(c.lifetime) - m.lifetime
  IN IF m.externalPort # -1 /\ dLifetime > 0
     THEN {Timer("refresh", protocol, c, m, reqLifetime(c.lifetime), m.lifetime, cache)}
     ELSE IF m.externalPort # -1 /\ c.lifetime = 0
     THEN {Timer("refresh", protocol, c, m, 0, DaySeconds, cache)}
     ELSE IF m.externalPort # -1
     THEN {Timer("expire", protocol, c, m, 0, m.lifetime, cache)}
     ELSE {}

\* Timers that refresh also a mapping that was granted its whole requested lifetime
EngineTimersAlwaysRefresh(protocol, c, m, cache) ==
  LET dLifetime == reqLifetime(c.lifetime) - m.lifetime
  IN IF m.externalPort # -1 /\ dLifetime >= 0
     THEN {Timer("refresh", protocol, c, m, dLifetime, m.lifetime, cache)}
     ELSE IF m.externalPort # -1
     THEN {Timer("expire", protocol, c, m, 0, m.lifetime, cache)}
     ELSE {}

\* Timers that refresh whenever the granted lifetime is not the requested one
EngineTimersUnlessEqual(protocol, c, m, cache) ==
  LET dLifetime == reqLifetime(c.lifetime) - m.lifetime
  IN IF m.externalPort # -1 /\ dLifetime # 0
     THEN {Timer("refresh", protocol, c, m, dLifetime, m.lifetime, cache)}
     ELSE IF m.externalPort # -1
     THEN {Timer("expire", protocol, c, m, 0, m.lifetime, cache)}
     ELSE {}

\* The timer the NAT-PMP and the PCP engine arm for Mapping m of call c: a refresh
\* that calls the engine's addMapping again, or the deletion of the entry at expiry.
\* PCP's refresh binds (intPort, externalPort, dLifetime, activeMappings): its
\* routerIpCache argument is undefined.
EngineTimers(protocol, c, m, cache) ==
  LET dLifetime == reqLifetime(c.lifetime) - m.lifetime
  IN IF m.externalPort # -1 /\ dLifetime > 0
     THEN {Timer("refresh", protocol, c, m, dLifetime, m.lifetime, cache)}
     ELSE IF m.externalPort # -1 /\ c.lifetime = 0
     THEN {Timer("refresh", protocol, c, m, 0, DaySeconds, cache)}
     ELSE IF m.externalPort # -1
     THEN {Timer("expire", protocol, c, m, 0, m.lifetime, cache)}
     ELSE {}

\* mapping.timeoutId: only a refresh timer's id is kept in the Mapping
TimeoutId(ts, m) == IF \E t \in ts : t.kind = "refresh" THEN m.obj ELSE m.timeoutId

Deleter(protocol, m, cache, controlUrl) ==
  [protocol |-> protocol, extPort |-> m.externalPort, routerIpCache |-> cache, controlUrl |-> controlUrl]

\* A save that stores every Mapping, also a failure Mapping
saveAlways(c, m, am) ==
  [mapping |-> m, timers |-> {}, activeMappings |-> SetKey(am, m.externalPort, m)]

\* pcp.js _saveAndRefreshMapping
saveAndRefreshMapping(c, m, am) ==
  LET ts == EngineTimers("pcp", c, m, "undefined")
      saved == [m EXCEPT !.timeoutId = TimeoutId(ts, m),
                         !.deleter = IF m.externalPort # -1
                                     THEN Deleter("pcp", m, c.routerIpCache, NoControlUrl) ELSE @]
  IN [mapping |-> saved, timers |-> ts,
      activeMappings |-> IF m.externalPort # -1 THEN SetKey(am, m.externalPort, saved) ELSE am]

\* The deleter of a NAT-PMP Mapping. PortControl calls mapping.deleter() for every
\* protocol; nat-pmp.js as it is in this tree attaches none, so the deleter is taken
\* to be what the PCP and the UPnP engine attach: the engine's own deletion
\* (deleteMappingPmp) bound to the external port of the Mapping.
pmpDeleter(m) == Deleter("natPmp", m, "shared", NoControlUrl)

\* A save that keeps no entry but the new one
saveAndRefreshMappingPmpOnly(c, m, am) ==
  LET ts == EngineTimers("natPmp", c, m, "shared")
      saved == [m EXCEPT !.timeoutId = TimeoutId(ts, m),
                         !.deleter = IF m.externalPort # -1 THEN pmpDeleter(m) ELSE @]
  IN [mapping |-> saved, timers |-> ts,
      activeMappings |-> IF m.externalPort # -1
                         THEN SetKey([p \in {} |-> NULL], m.externalPort, saved) ELSE am]

\* A save that keeps the Mapping of a probe out of the table
saveAndRefreshMappingPmpNoProbe(c, m, am) ==
  LET ts == EngineTimers("natPmp", c, m, "shared")
      saved == [m EXCEPT !.timeoutId = TimeoutId(ts, m),
                         !.deleter = IF m.externalPort # -1 THEN pmpDeleter(m) ELSE @]
  IN [mapping |-> saved, timers |-> ts,
      activeMappings |-> IF m.externalPort # -1 /\ c.intPort # NAT_PMP_PROBE_PORT
                         THEN SetKey(am, m.externalPort, saved) ELSE am]

\* nat-pmp.js addMappingPmp, after _sendPmpRequests
saveAndRefreshMappingPmp(c, m, am) ==
  LET ts == EngineTimers("natPmp", c, m, "shared")
      saved == [m EXCEPT !.timeoutId = TimeoutId(ts, m),
                         !.deleter = IF m.externalPort # -1 THEN pmpDeleter(m) ELSE @]
  IN [mapping |-> saved, timers |-> ts,
      activeMappings |-> IF m.externalPort # -1 THEN SetKey(am, m.externalPort, saved) ELSE am]

\* A save that arms the expiry also for lifetime 0
saveMappingAlwaysExpire(c, m, am) ==
  LET ts == IF m.externalPort # -1
            THEN {Timer("expire", "upnp", c, m, 0, m.lifetime, "shared")} ELSE {}
      saved == [m EXCEPT !.deleter = IF m.externalPort # -1
                                     THEN Deleter("upnp", m, "shared", c.controlUrl) ELSE @]
  IN [mapping |-> saved, timers |-> ts,
      activeMappings |-> IF m.externalPort # -1 THEN SetKey(am, m.externalPort, saved) ELSE am]

\* upnp.js _saveMapping: the entry is deleted at expiry unless lifetime is 0; never a refresh
saveMapping(c, m, am) ==
  LET ts == IF m.externalPort # -1 /\ c.lifetime # 0
            THEN {Timer("expire", "upnp", c, m, 0, m.lifetime, "shared")} ELSE {}
      saved == [m EXCEPT !.deleter = IF m.externalPort # -1
                                     THEN Deleter("upnp", m, "shared", c.controlUrl) ELSE @]
  IN [mapping |-> saved, timers |-> ts,
      activeMappings |-> IF m.externalPort # -1 THEN SetKey(am, m.externalPort, saved) ELSE am]

----------------------------------------------------------------------------
(* The initial state: a PortControl object just constructed *)

Kinds == {"add", "delete", "close", "probe", "refresh"}

NoMappings == [p \in {} |-> NULL]

\* protocolSupportCache with all four fields undefined
NoSupportData == [f \in {} |-> FALSE]

Init ==
  /\ activeMappings = NoMappings
  /\ routerIpCache = <<>>
  /\ protocolSupportCache = NoSupportData
  /\ timers = {}
  /\ calls = NoCalls
  /\ invoked = [kind \in Kinds |-> 0]
  /\ ret = NoRet

----------------------------------------------------------------------------
(* The steps of the engines' addMapping *)

\* A call of this kind can still be made, where the run has at most maxCalls calls
\* and at most maxKind of this kind
Fresh(maxCalls, kind, maxKind) == nextId <= maxCalls /\ invoked[kind] < maxKind

Count(kind) == [invoked EXCEPT ![kind] = @ + 1]

Kind(c) == IF c.api = "refresh" THEN "refresh" ELSE c.op

Stage(id, op, stage) == id \in DOMAIN calls /\ calls[id].op = op /\ calls[id].stage = stage

\* A new call c enters at id nextId
Invoke(c) ==
  /\ calls' = (nextId :> c) @@ calls
  /\ invoked' = Count(Kind(c))
  /\ ret' = NoRet
  /\ UNCHANGED <<activeMappings, routerIpCache, protocolSupportCache, timers>>

\* The engine's addMapping of call id has its Mapping: it is saved (result s of the
\* save function), and the promise of the engine is fulfilled with it.
\* cs are the calls in flight.
EngineDoneIn(cs, id, c, s, cache) ==
  LET f == AddFulfilled(cs, protocolSupportCache, id, c, s.mapping)
  IN /\ timers' = timers \cup s.timers
     /\ activeMappings' = s.activeMappings
     /\ routerIpCache' = cache
     /\ calls' = f.calls
     /\ ret' = f.ret
     /\ protocolSupportCache' = f.psc
     /\ UNCHANGED invoked

EngineDone(id, c, s, cache) == EngineDoneIn(calls, id, c, s, cache)

\* The promise of call id is rejected
Reject(id, c) ==
  LET s == Settled(calls, protocolSupportCache, id, c, "rejected", FALSE)
  IN /\ calls' = s.calls
     /\ ret' = s.ret
     /\ protocolSupportCache' = s.psc

\* A parse that takes the external port from the request
ParseRequestedPort(id, c, i, r) ==
  [c.mapping EXCEPT !.externalPort = c.extPort, !.lifetime = r.lifetime]

\* A parse that keeps a nonce for every protocol
ParseNonceAlways(id, c, i, r) ==
  [c.mapping EXCEPT !.externalPort = r.externalPort,
                    !.externalIp = IF c.protocol = "pcp" THEN c.routerIps[i] ELSE @,
                    !.lifetime = r.lifetime,
                    !.nonce = <<id, c.routerIps[i]>>]

\* The Mapping after a wave of requests: the response of one target is parsed into it
ParseResponse(id, c, i, r) ==
  [c.mapping EXCEPT !.externalPort = r.externalPort,
                    !.externalIp = IF c.protocol = "pcp" THEN c.routerIps[i] ELSE @,
                    !.lifetime = r.lifetime,
                    !.nonce = IF c.protocol = "pcp" THEN <<id, c.routerIps[i]>> ELSE @]

\* pcp.js _sendPcpRequests: every non-null response is parsed into the Mapping in
\* list order, so the last one stays
sendPcpRequests(id, c, ipsOk, responses) ==
  IF ipsOk /\ Answered(responses) # {}
  THEN ParseResponse(id, c, Max(Answered(responses)), responses[Max(Answered(responses))])
  ELSE c.mapping

\* pcp.js _sendPcpRequests: every router that answered is pushed to routerIpCache
pcpRouterIpCache(cache, c, ipsOk, responses) ==
  IF ipsOk
  THEN arrAdd(cache, SelectInOrder(c.routerIps, {c.routerIps[i] : i \in Answered(responses)}))
  ELSE cache

\* nat-pmp.js _sendPmpRequests: the first non-null response in list order is returned
sendPmpRequests(id, c, responses) ==
  IF Answered(responses) # {}
  THEN ParseResponse(id, c, Min(Answered(responses)), responses[Min(Answered(responses))])
  ELSE c.mapping

\* pcp.js _sendPcpRequestsInWaves: getPrivateIps() settles. The first wave goes to
\* the cached routers and the default routers of the host's subnets.
PcpIps(id) ==
  /\ Stage(id, "add", "ips")
  /\ \E ipsOk \in BOOLEAN :
       LET c == calls[id]
           matchedRouterIps == arrAdd(routerIpCache, filterRouterIps)
           otherRouterIps == arrDiff(ROUTER_IPS, matchedRouterIps)
       IN IF ipsOk /\ c.routerIpCache = "shared"
          THEN /\ calls' = [calls EXCEPT ![id] = [c EXCEPT !.stage = "wave1",
                                                   !.routerIps = matchedRouterIps,
                                                   !.otherRouterIps = otherRouterIps]]
               /\ ret' = NoRet
               /\ UNCHANGED protocolSupportCache
          ELSE Reject(id, c)
  /\ UNCHANGED <<activeMappings, routerIpCache, timers, invoked>>

\* pcp.js _sendPcpRequests and what follows it: the handler of the responses of a
\* wave of call id (record c; cs are the calls in flight). After a first wave
\* without a Mapping the second wave is started; else the Mapping is saved.
PcpWaveDone(cs, id, c, ipsOk, responses) ==
  LET m == sendPcpRequests(id, c, ipsOk, responses)
      cache == pcpRouterIpCache(routerIpCache, c, ipsOk, responses)
  IN IF c.stage \in {"wave1", "race1"} /\ m.externalPort = -1
     THEN /\ calls' = [cs EXCEPT ![id] = [c EXCEPT !.stage = "wave2",
                                                   !.routerIps = c.otherRouterIps]]
          /\ ret' = NoRet
          /\ routerIpCache' = cache
          /\ UNCHANGED <<activeMappings, protocolSupportCache, timers, invoked>>
     ELSE EngineDoneIn(cs, id, c, saveAndRefreshMapping(c, m, activeMappings), cache)

\* pcp.js _sendPcpRequests: getPrivateIps() settled and the wave of requests is over
PcpWave(id) ==
  /\ id \in DOMAIN calls /\ calls[id].op = "add" /\ calls[id].stage \in {"wave1", "wave2"}
  /\ \E ipsOk \in BOOLEAN, responses \in WaveResponses(calls[id].routerIps, AddResponses) :
       PcpWaveDone(calls, id,
                   [calls[id] EXCEPT !.sent = IF ipsOk THEN @ + Len(calls[id].routerIps) ELSE @],
                   ipsOk, responses)

\* nat-pmp.js addMappingPmp, after _sendPmpRequests: the handler of the responses of
\* the wave of call id (record c; cs are the calls in flight)
PmpWaveDone(cs, id, c, responses) ==
  EngineDoneIn(cs, id, c,
               saveAndRefreshMappingPmp(c, sendPmpRequests(id, c, responses), activeMappings),
               routerIpCache)

\* nat-pmp.js addMappingPmp: the wave to all of ROUTER_IPS is over
PmpWave(id) ==
  /\ Stage(id, "add", "wave")
  /\ \E responses \in WaveResponses(calls[id].routerIps, AddResponses) :
       PmpWaveDone(calls, id, calls[id], responses)

SsdpErrors == {"SSDP timeout", "Invalid URL"}
SoapErrors == {"AddPortMapping time out"} \cup {AddPortMappingError(d) : d \in ErrorDescriptions}

\* upnp.js _handleUpnpFlow without a control URL: _getUpnpControlUrl() settles, with
\* a control URL, or with an error that _handleError writes to the Mapping
UpnpSsdp(id) ==
  /\ Stage(id, "add", "ssdp")
  /\ LET c == calls[id]
     IN \/ \E url \in ControlUrls :
             /\ calls' = [calls EXCEPT ![id] = [c EXCEPT !.stage = "soap", !.controlUrl = url]]
             /\ ret' = NoRet
             /\ UNCHANGED <<activeMappings, routerIpCache, protocolSupportCache, timers, invoked>>
        \/ \E err \in SsdpErrors :
             EngineDone(id, c, saveMapping(c, [c.mapping EXCEPT !.errInfo = err], activeMappings),
                        routerIpCache)

\* upnp.js _handleControlUrl: getPrivateIps() settles and then AddPortMapping.
\* A rejection of getPrivateIps() has no handler: the promise of addMapping stays pending.
UpnpSoap(id) ==
  /\ Stage(id, "add", "soap")
  /\ LET c == calls[id]
     IN \/ /\ calls' = [calls EXCEPT ![id] = [c EXCEPT !.stage = "hung"]]
           /\ ret' = NoRet
           /\ UNCHANGED <<activeMappings, routerIpCache, protocolSupportCache, timers, invoked>>
        \/ LET m == [c.mapping EXCEPT !.externalPort = c.extPort, !.lifetime = c.lifetime]
               c1 == [c EXCEPT !.sent = @ + 1]
           IN EngineDone(id, c1, saveMapping(c1, m, activeMappings), routerIpCache)
        \/ \E err \in SoapErrors :
             LET c1 == [c EXCEPT !.sent = @ + 1]
             IN EngineDone(id, c1, saveMapping(c1, [c.mapping EXCEPT !.errInfo = err], activeMappings),
                           routerIpCache)

----------------------------------------------------------------------------
(* Timers *)

\* A refresh timer fires: the engine's addMapping is called again with the bound arguments
RefreshFire ==
  \E t \in timers :
    /\ t.kind = "refresh"
    /\ timers' = timers \ {t}
    /\ LET c == [AddCall("refresh", "single", 0, t.intPort, t.extPort, t.lifetime)
                   EXCEPT !.routerIpCache = t.routerIpCache]
       IN calls' = (nextId :> StartEngine(nextId, c, t.protocol)) @@ calls
    /\ invoked' = Count("refresh")
    /\ ret' = NoRet
    /\ UNCHANGED <<activeMappings, routerIpCache, protocolSupportCache>>

\* An expiry timer fires: delete activeMappings[mapping.externalPort]
ExpireFire ==
  \E t \in timers :
    /\ t.kind = "expire"
    /\ timers' = timers \ {t}
    /\ activeMappings' = DeleteKey(activeMappings, t.extPort)
    /\ ret' = NoRet
    /\ UNCHANGED <<routerIpCache, protocolSupportCache, calls, invoked>>

----------------------------------------------------------------------------
(* PortControl: adding a mapping *)

Supported(psc, protocol) == protocol \in DOMAIN psc /\ psc[protocol]

\* A dispatch that prefers PCP to NAT-PMP
DispatchPcpFirst(psc) ==
  IF Supported(psc, "pcp") THEN "pcp"
  ELSE IF Supported(psc, "natPmp") THEN "natPmp"
  ELSE IF Supported(psc, "upnp") THEN "upnp"
  ELSE "none"

\* A dispatch that tries UPnP when no protocol is supported
DispatchUpnpByDefault(psc) ==
  IF Supported(psc, "natPmp") THEN "natPmp"
  ELSE IF Supported(psc, "pcp") THEN "pcp"
  ELSE "upnp"

\* PortControl.addMapping with probe data: the one protocol to try, "none" if no
\* protocol is supported
DispatchProtocol(psc) ==
  IF Supported(psc, "natPmp") THEN "natPmp"
  ELSE IF Supported(psc, "pcp") THEN "pcp"
  ELSE IF Supported(psc, "upnp") THEN "upnp"
  ELSE "none"

\* failureMapping.errInfo of PortControl.addMapping
NoProtocolsErrInfo == "No protocols are supported from last probe"

\* PortControl.addMapping(intPort, extPort, lifetime)
AddMapping(intPort, extPort, lifetime) ==
  IF "natPmp" \notin DOMAIN protocolSupportCache
  THEN Invoke(StartEngine(nextId, AddCall("addMapping", "chain", 0, intPort, extPort, lifetime),
                          "natPmp"))
  ELSE IF DispatchProtocol(protocolSupportCache) # "none"
  THEN Invoke(StartEngine(nextId,
                [AddCall("addMapping", "cached", 0, intPort, extPort, lifetime)
                   EXCEPT !.controlUrl = protocolSupportCache.upnpControlUrl],
                DispatchProtocol(protocolSupportCache)))
  ELSE LET c == AddCall("addMapping", "cached", 0, intPort, extPort, lifetime)
           failureMapping == [Mapping(<<nextId, "none">>, intPort, "none")
                                EXCEPT !.internalPort = -1, !.errInfo = NoProtocolsErrInfo,
                                       !.requested = extPort, !.requestedLifetime = lifetime]
       IN /\ ret' = (nextId :> Event([c EXCEPT !.mapping = failureMapping], "resolved", failureMapping))
          /\ invoked' = Count("add")
          /\ UNCHANGED <<activeMappings, routerIpCache, protocolSupportCache, timers, calls>>

\* PortControl.addMappingPmp(intPort, extPort, lifetime)
AddMappingPmp(intPort, extPort, lifetime) ==
  Invoke(StartEngine(nextId, AddCall("addMappingPmp", "single", 0, intPort, extPort, lifetime), "natPmp"))

\* PortControl.addMappingPcp(intPort, extPort, lifetime)
AddMappingPcp(intPort, extPort, lifetime) ==
  Invoke(StartEngine(nextId, AddCall("addMappingPcp", "single", 0, intPort, extPort, lifetime), "pcp"))

\* PortControl.addMappingUpnp(intPort, extPort, lifetime, controlUrl)
AddMappingUpnp(intPort, extPort, lifetime, controlUrl) ==
  Invoke(StartEngine(nextId, [AddCall("addMappingUpnp", "single", 0, intPort, extPort, lifetime)
                                EXCEPT !.controlUrl = controlUrl], "upnp"))

----------------------------------------------------------------------------
(* Deleting a mapping *)

\* The fields of a NAT-PMP or PCP request that a deletion sets: internal port,
\* external port, lifetime and (PCP) nonce
Request(intPort, extPort, lifetime, nonce) ==
  [intPort |-> intPort, extPort |-> extPort, lifetime |-> lifetime, nonce |-> nonce]

NoRequest == Request(-1, -1, -1, NoNonce)

\* A delete call; mapping is the entry that the controller looked up, request is
\* what the deleter sends to every target, resultCodes are the result codes of the
\* responses it got
DeleteCall(api, parent, extPort, mapping) ==
  [op |-> "delete", api |-> api, parent |-> parent, extPort |-> extPort, mapping |-> mapping,
   protocol |-> "none", stage |-> "guard", routerIps |-> <<>>, controlUrl |-> NoControlUrl,
   sent |-> 0, confirmed |-> FALSE, request |-> NoRequest, resultCodes |-> {},
   responses |-> <<>>, arrivals |-> <<>>]

\* var mapping = this.activeMappings[extPort]
Lookup(am, extPort) ==
  IF extPort \in DOMAIN am THEN am[extPort] ELSE Mapping(<<0, "none">>, -1, "none")

\* mapping.deleter(): the engine's deleteMapping with the arguments bound when the
\* Mapping was saved. NAT-PMP reads the entry and sends to all of ROUTER_IPS at once;
\* PCP first asks for the private IPs; UPnP posts DeletePortMapping.
InvokeDeleter(c, deleter) ==
  [c EXCEPT !.protocol = deleter.protocol,
            !.extPort = deleter.extPort,
            !.controlUrl = deleter.controlUrl,
            !.stage = CASE deleter.protocol = "natPmp" -> "wave"
                        [] deleter.protocol = "pcp" -> "ips"
                        [] OTHER -> "soap",
            !.routerIps = IF deleter.protocol = "natPmp" THEN ROUTER_IPS ELSE <<>>,
            !.request = IF deleter.protocol = "natPmp"
                        THEN Request(c.mapping.internalPort, 0, 0, NoNonce) ELSE @,
            !.sent = CASE deleter.protocol = "natPmp" -> Len(ROUTER_IPS)
                       [] deleter.protocol = "pcp" -> 0
                       [] OTHER -> 1]

\* A guard that only asks for an entry, of whatever protocol
DeleteGuardAnyProtocol(api, am, extPort) == extPort \in DOMAIN am

\* The guards of PortControl.deleteMapping, deleteMappingPmp, deleteMappingPcp and
\* deleteMappingUpnp: is the deleter of the entry called?
DeleteGuard(api, am, extPort) ==
  /\ extPort \in DOMAIN am
  /\ CASE api = "deleteMappingPmp" -> am[extPort].protocol = "natPmp"
       [] api = "deleteMappingPcp" -> am[extPort].protocol = "pcp"
       [] api = "deleteMappingUpnp" -> am[extPort].protocol = "upnp"
       [] OTHER -> TRUE

\* Promise.resolve(false) of a delete call whose guard fails
DeleteRefused(api, extPort) ==
  /\ ret' = (nextId :> Event(DeleteCall(api, 0, extPort, Lookup(activeMappings, extPort)),
                              "resolved", FALSE))
  /\ invoked' = Count("delete")
  /\ UNCHANGED <<activeMappings, routerIpCache, protocolSupportCache, timers, calls>>

Delete(api, extPort) ==
  IF DeleteGuard(api, activeMappings, extPort)
  THEN Invoke(InvokeDeleter(DeleteCall(api, 0, extPort, Lookup(activeMappings, extPort)),
                            activeMappings[extPort].deleter))
  ELSE DeleteRefused(api, extPort)

\* PortControl.deleteMapping(extPort)
DeleteMapping(extPort) == Delete("deleteMapping", extPort)

\* PortControl.deleteMappingPmp(extPort)
DeleteMappingPmp(extPort) == Delete("deleteMappingPmp", extPort)

\* PortControl.deleteMappingPcp(extPort)
DeleteMappingPcp(extPort) == Delete("deleteMappingPcp", extPort)

\* PortControl.deleteMappingUpnp(extPort)
DeleteMappingUpnp(extPort) == Delete("deleteMappingUpnp", extPort)

\* The promise of delete call id is fulfilled with value (cs are the calls in flight)
DeleteFulfilledIn(cs, id, c, value) ==
  LET s == Settled(cs, protocolSupportCache, id, [c EXCEPT !.stage = "done"], "resolved", value)
  IN /\ calls' = s.calls
     /\ ret' = s.ret
     /\ protocolSupportCache' = s.psc

DeleteFulfilled(id, c, value) == DeleteFulfilledIn(calls, id, c, value)

\* A router confirmed the deletion: clearTimeout(activeMappings[extPort].timeoutId),
\* delete activeMappings[extPort], return true. Without the entry the read throws,
\* and the catch of the engine returns false.
deleteFromActiveMappings(cs, id, c) ==
  IF c.extPort \in DOMAIN activeMappings
  THEN /\ timers' = clearTimeout(timers, activeMappings[c.extPort].timeoutId)
       /\ activeMappings' = DeleteKey(activeMappings, c.extPort)
       /\ DeleteFulfilledIn(cs, id, c, TRUE)
  ELSE /\ UNCHANGED <<timers, activeMappings>>
       /\ DeleteFulfilledIn(cs, id, c, FALSE)

\* The result codes with which a router confirms a deletion
SuccessCodes(protocol) == IF protocol = "pcp" THEN {0, 8} ELSE {0}

Confirmed(protocol, responses) ==
  \E i \in Answered(responses) : responses[i].resultCode \in SuccessCodes(protocol)

\* pcp.js _sendDeletionRequestsInWaves: getPrivateIps() settles
PcpDeleteIps(id) ==
  /\ Stage(id, "delete", "ips")
  /\ \E ipsOk \in BOOLEAN :
       LET c == calls[id]
       IN IF ipsOk
          THEN /\ calls' = [calls EXCEPT ![id] = [c EXCEPT !.stage = "ips2",
                                 !.routerIps = arrAdd(routerIpCache, filterRouterIps)]]
               /\ ret' = NoRet
               /\ UNCHANGED protocolSupportCache
          ELSE DeleteFulfilled(id, c, FALSE)
  /\ UNCHANGED <<activeMappings, routerIpCache, timers, invoked>>

\* pcp.js _sendDeletionRequests: getPrivateIps() settles; the entry's internal port
\* and nonce are read (a missing entry throws) and the wave is sent
PcpDeleteSend(id) ==
  /\ Stage(id, "delete", "ips2")
  /\ \E ipsOk \in BOOLEAN :
       LET c == calls[id]
       IN IF ipsOk /\ c.extPort \in DOMAIN activeMappings
          THEN /\ calls' = [calls EXCEPT ![id] = [c EXCEPT !.stage = "wave",
                                 !.request = Request(activeMappings[c.extPort].internalPort, 0, 0,
                                                     activeMappings[c.extPort].nonce),
                                 !.sent = @ + Len(c.routerIps)]]
               /\ ret' = NoRet
               /\ UNCHANGED protocolSupportCache
          ELSE DeleteFulfilled(id, c, FALSE)
  /\ UNCHANGED <<activeMappings, routerIpCache, timers, invoked>>

\* The wave of deletion requests of the NAT-PMP or the PCP engine is over. PCP's test
\* of the responses (responses.externalPort !== -1) always passes: the routers that
\* are not in the first wave are never asked.
DeleteWaveDone(cs, id, c0, responses) ==
  LET c == [c0 EXCEPT !.confirmed = Confirmed(c0.protocol, responses),
                      !.resultCodes = {responses[i].resultCode : i \in Answered(responses)}]
  IN /\ IF c.confirmed
        THEN deleteFromActiveMappings(cs, id, c)
        ELSE /\ DeleteFulfilledIn(cs, id, c, FALSE)
             /\ UNCHANGED <<timers, activeMappings>>
     /\ UNCHANGED <<routerIpCache, invoked>>

\* The wave of deletion requests of call id is over
DeleteWave(id) ==
  /\ Stage(id, "delete", "wave")
  /\ \E responses \in WaveResponses(calls[id].routerIps, DeleteResponses) :
       DeleteWaveDone(calls, id, calls[id], responses)

\* A deletion that returns true after HTTP 200 and leaves the entry in the table
UpnpDeleteSoapKeepEntry(id) ==
  /\ Stage(id, "delete", "soap")
  /\ \E ok \in BOOLEAN : DeleteFulfilled(id, [calls[id] EXCEPT !.confirmed = ok], ok)
  /\ UNCHANGED <<activeMappings, routerIpCache, timers, invoked>>

\* upnp.js deleteMapping: sendDeletePortMapping settles; after HTTP 200 the entry is
\* deleted, after HTTP 500 or a timeout false is returned
UpnpDeleteSoap(id) ==
  /\ Stage(id, "delete", "soap")
  /\ \E ok \in BOOLEAN :
       LET c == [calls[id] EXCEPT !.confirmed = ok]
       IN IF ok
          THEN /\ activeMappings' = DeleteKey(activeMappings, c.extPort)
               /\ DeleteFulfilled(id, c, TRUE)
          ELSE /\ DeleteFulfilled(id, c, FALSE)
               /\ UNCHANGED activeMappings
  /\ UNCHANGED <<routerIpCache, timers, invoked>>

----------------------------------------------------------------------------
(* PortControl.close and PortControl.probeProtocolSupport *)

\* The ids of the refresh timers that are pending
RefreshTimers(ts) == {t.id : t \in {u \in ts : u.kind = "refresh"}}

\* The k-th key of the table, in increasing order, is the k-th deletion of close()
KeyIndex(keys, p) == Cardinality({q \in keys : q <= p})

\* PortControl.close(): deleteMapping(extPort) for every key of activeMappings at
\* once; the promise is fulfilled when all of them are
Close ==
  LET extPorts == DOMAIN activeMappings
      children == {ChildId(nextId, KeyIndex(extPorts, p)) : p \in extPorts}
      c == [op |-> "close", api |-> "close", parent |-> 0, stage |-> "all",
            extPorts |-> extPorts, deletions |-> children, children |-> children,
            refreshTimers |-> RefreshTimers(timers)]
      deletions == [k \in children |->
                      LET p == CHOOSE q \in extPorts : ChildId(nextId, KeyIndex(extPorts, q)) = k
                      IN InvokeDeleter(DeleteCall("deleteMapping", nextId, p, activeMappings[p]),
                                       activeMappings[p].deleter)]
  IN /\ invoked' = Count("close")
     /\ IF extPorts = {}
        THEN /\ ret' = (nextId :> Event(c, "resolved", TRUE))
             /\ UNCHANGED calls
        ELSE /\ ret' = NoRet
             /\ calls' = (nextId :> c) @@ deletions @@ calls
     /\ UNCHANGED <<activeMappings, routerIpCache, protocolSupportCache, timers>>

\* PortControl.probeProtocolSupport(): probePmpSupport, probePcpSupport,
\* probeUpnpSupport and getUpnpControlUrl at once
ProbeProtocolSupport ==
  LET p == [op |-> "probe", api |-> "probeProtocolSupport", parent |-> 0, stage |-> "all",
            support |-> NoSupportData, urlDone |-> FALSE, upnpControlUrl |-> NoControlUrl]
      pmp == StartEngine(ChildId(nextId, 1),
               AddCall("probePmpSupport", "single", nextId,
                       NAT_PMP_PROBE_PORT, NAT_PMP_PROBE_PORT, ProbeLifetime), "natPmp")
      pcp == StartEngine(ChildId(nextId, 2),
               AddCall("probePcpSupport", "single", nextId,
                       PCP_PROBE_PORT, PCP_PROBE_PORT, ProbeLifetime), "pcp")
      upnp == StartEngine(ChildId(nextId, 3),
               AddCall("probeUpnpSupport", "single", nextId,
                       UPNP_PROBE_PORT, UPNP_PROBE_PORT, ProbeLifetime), "upnp")
  IN /\ invoked' = Count("probe")
     /\ calls' = (nextId :> p) @@ (ChildId(nextId, 1) :> pmp) @@ (ChildId(nextId, 2) :> pcp)
                   @@ (ChildId(nextId, 3) :> upnp) @@ calls
     /\ ret' = NoRet
     /\ UNCHANGED <<activeMappings, routerIpCache, protocolSupportCache, timers>>

\* upnp.js getUpnpControlUrl of probeProtocolSupport settles: a control URL, or
\* undefined when discovery failed
ProbeUrl(id) ==
  /\ id \in DOMAIN calls /\ calls[id].op = "probe" /\ ~calls[id].urlDone
  /\ \E url \in ControlUrls \cup {NoControlUrl} :
       LET s == ProbeProgress(calls, protocolSupportCache, id,
                              [calls[id] EXCEPT !.urlDone = TRUE, !.upnpControlUrl = url], NoRet)
       IN /\ calls' = s.calls
          /\ ret' = s.ret
          /\ protocolSupportCache' = s.psc
  /\ UNCHANGED <<activeMappings, routerIpCache, timers, invoked>>

----------------------------------------------------------------------------
(* The requests of a wave, one by one: sendPmpRequest and sendPcpRequest *)

\* Lifetimes and result codes in the replies to a MAP request, where the requests
\* are followed one by one (result code 0: success)
RaceLifetimes == {1, 2}
RaceResultCodes == {0, 1}

\* The external port that the calls ask for there (0: the NAT chooses)
RaceExtPorts == {0}

RaceResponses ==
  [null : {FALSE}, resultCode : RaceResultCodes, externalPort : GrantPorts, lifetime : RaceLifetimes]

\* A request in flight: its socket, and its promise (pending, or fulfilled with the
\* reply). Its record stays until the countdown of its timeout has fired. The
\* promise of an orphan is in no Promise.all: nothing waits for it.
RequestCall(api, parent, index) ==
  [op |-> "request", api |-> api, parent |-> parent, index |-> index,
   stage |-> "pending", socket |-> "open", orphan |-> FALSE]

\* routerIps.map(sendPcpRequest) and ROUTER_IPS.map(sendPmpRequest): one request per
\* target, each with a socket of its own; wave 2 of a call has offset 5
Requests(api, parent, offset, routerIps) ==
  [rid \in {ChildId(parent, offset + i) : i \in DOMAIN routerIps} |->
     RequestCall(api, parent, rid - ChildId(parent, offset))]

\* utils.longestPrefixMatch(privateIps, routerIp) is undefined where every private
\* IP of the host has its first 31 bits in common with routerIp, which can be so for
\* a router of the host's subnet: ipaddr.IPv4.parse(privateIp) throws in
\* sendPcpRequest then. 0: no request of the wave throws; i: the request to the i-th
\* target throws.
Thrown(routerIps) == {0} \cup {i \in DOMAIN routerIps : routerIps[i] \in LocalSubnetRouters}

\* routerIps.map(...) where the request to target number thrown throws: the requests
\* to the targets before it are made
Orphans(api, parent, offset, routerIps, thrown) ==
  LET made == Requests(api, parent, offset, SubSeq(routerIps, 1, thrown - 1))
  IN [rid \in DOMAIN made |-> [made[rid] EXCEPT !.orphan = TRUE]]

\* Promise.all has all its values: the handler of the responses runs
WaveDone(cs, pid, p) ==
  CASE p.op = "delete" -> DeleteWaveDone(cs, pid, p, p.responses)
    [] p.op = "add" /\ p.protocol = "natPmp" -> PmpWaveDone(cs, pid, p, p.responses)
    [] OTHER -> PcpWaveDone(cs, pid, p, TRUE, p.responses)

\* Request index of call pid is settled with r (NULL after a timeout); Promise.all
\* goes on when all the requests of the wave are settled
SettleRequest(cs, pid, index, r) ==
  LET p == [cs[pid] EXCEPT !.responses = (index :> r) @@ @,
                           !.arrivals = IF r.null THEN @ ELSE Append(@, index)]
  IN IF DOMAIN p.responses = DOMAIN p.routerIps
     THEN WaveDone(cs, pid, p)
     ELSE /\ calls' = [cs EXCEPT ![pid] = p]
          /\ ret' = NoRet
          /\ UNCHANGED <<activeMappings, routerIpCache, protocolSupportCache, timers, invoked>>

\* socket.on('onData'): utils.closeSocket(socket); F(response)
onData(q) == [q EXCEPT !.stage = "replied", !.socket = "closed"]

\* The reply to request rid arrives while its socket is open
OnData(rid) ==
  /\ Stage(rid, "request", "pending")
  /\ LET q == calls[rid]
     IN IF q.orphan
        THEN /\ calls' = [calls EXCEPT ![rid] = onData(q)]
             /\ ret' = NoRet
             /\ UNCHANGED <<activeMappings, routerIpCache, protocolSupportCache, timers, invoked>>
        ELSE \E r \in IF calls[q.parent].op = "add" THEN RaceResponses ELSE DeleteResponses :
               SettleRequest([calls EXCEPT ![rid] = onData(q)], q.parent, q.index, r)

\* utils.countdownReject of request rid fires, 2000 ms after the request was made:
\* utils.closeSocket(socket), and the promise is rejected unless the reply came
Countdown(rid) ==
  /\ rid \in DOMAIN calls /\ calls[rid].op = "request"
  /\ LET q == calls[rid]
     IN IF q.stage = "pending" /\ ~q.orphan
        THEN SettleRequest(Without(calls, rid), q.parent, q.index, NULL)
        ELSE /\ calls' = Without(calls, rid)
             /\ ret' = NoRet
             /\ UNCHANGED <<activeMappings, routerIpCache, protocolSupportCache, timers, invoked>>

\* PortControl.addMappingPmp(intPort, extPort, lifetime), with the requests that
\* nat-pmp.js _sendPmpRequests makes
RaceAddMappingPmp(intPort, extPort, lifetime) ==
  LET c == StartEngine(nextId, AddCall("addMappingPmp", "single", 0, intPort, extPort, lifetime),
                       "natPmp")
  IN /\ calls' = (nextId :> [c EXCEPT !.stage = "race"])
                    @@ Requests("sendPmpRequest", nextId, 0, ROUTER_IPS) @@ calls
     /\ invoked' = Count("add")
     /\ ret' = NoRet
     /\ UNCHANGED <<activeMappings, routerIpCache, protocolSupportCache, timers>>

\* pcp.js _sendPcpRequests: getPrivateIps() settles and the requests of the wave are
\* made; after a rejection, or when making a request throws, the catch returns the
\* Mapping as it is
PcpSend(id) ==
  /\ id \in DOMAIN calls /\ calls[id].op = "add" /\ calls[id].stage \in {"wave1", "wave2"}
  /\ \E ipsOk \in BOOLEAN, thrown \in Thrown(calls[id].routerIps) :
       LET c == calls[id]
           offset == IF c.stage = "wave1" THEN 0 ELSE 5
       IN IF ipsOk /\ thrown > 0
          THEN PcpWaveDone(Orphans("sendPcpRequest", id, offset, c.routerIps, thrown) @@ calls,
                           id, [c EXCEPT !.sent = @ + thrown - 1], FALSE, <<>>)
          ELSE IF ipsOk /\ c.routerIps # <<>>
          THEN /\ calls' = Requests("sendPcpRequest", id, IF c.stage = "wave1" THEN 0 ELSE 5,
                                    c.routerIps)
                             @@ [calls EXCEPT ![id] =
                                   [c EXCEPT !.stage = IF c.stage = "wave1" THEN "race1" ELSE "race2",
                                             !.sent = @ + Len(c.routerIps),
                                             !.responses = <<>>, !.arrivals = <<>>]]
               /\ ret' = NoRet
               /\ UNCHANGED <<activeMappings, routerIpCache, protocolSupportCache, timers, invoked>>
          ELSE PcpWaveDone(calls, id, c, ipsOk, <<>>)

\* PortControl.deleteMapping(extPort), with the requests that deleteMappingPmp makes
RaceDeleteMapping(extPort) ==
  IF DeleteGuard("deleteMapping", activeMappings, extPort)
  THEN LET c == InvokeDeleter(DeleteCall("deleteMapping", 0, extPort, Lookup(activeMappings, extPort)),
                              activeMappings[extPort].deleter)
       IN /\ calls' = IF c.protocol = "natPmp"
                      THEN (nextId :> [c EXCEPT !.stage = "race"])
                             @@ Requests("sendPmpRequest", nextId, 0, ROUTER_IPS) @@ calls
                      ELSE (nextId :> c) @@ calls
          /\ invoked' = Count("delete")
          /\ ret' = NoRet
          /\ UNCHANGED <<activeMappings, routerIpCache, protocolSupportCache, timers>>
  ELSE DeleteRefused("deleteMapping", extPort)

\* pcp.js _sendDeletionRequests: getPrivateIps() settles; the entry's internal port
\* and nonce are read (a missing entry throws) and the requests of the wave are made
PcpDeleteSendRequests(id) ==
  /\ Stage(id, "delete", "ips2")
  /\ \E ipsOk \in BOOLEAN, thrown \in Thrown(calls[id].routerIps) :
       LET c == calls[id]
       IN IF ipsOk /\ c.extPort \in DOMAIN activeMappings /\ thrown > 0
          THEN DeleteFulfilledIn(Orphans("sendPcpRequest", id, 0, c.routerIps, thrown) @@ calls,
                                 id, [c EXCEPT !.sent = @ + thrown - 1], FALSE)
          ELSE IF ipsOk /\ c.extPort \in DOMAIN activeMappings
          THEN /\ calls' = Requests("sendPcpRequest", id, 0, c.routerIps)
                             @@ [calls EXCEPT ![id] =
                                   [c EXCEPT !.stage = "race",
                                             !.request = Request(activeMappings[c.extPort].internalPort,
                                                                 0, 0, activeMappings[c.extPort].nonce),
                                             !.sent = @ + Len(c.routerIps)]]
               /\ ret' = NoRet
               /\ UNCHANGED protocolSupportCache
          ELSE DeleteFulfilled(id, c, FALSE)
  /\ UNCHANGED <<activeMappings, routerIpCache, timers, invoked>>

----------------------------------------------------------------------------
(* The specification *)

\* The ids of the calls in flight
Ids == DOMAIN calls

\* The steps of the calls in flight, and the expiry timers
Step ==
  \/ \E id \in Ids : PcpIps(id)
  \/ \E id \in Ids : PcpWave(id)
  \/ \E id \in Ids : PmpWave(id)
  \/ \E id \in Ids : UpnpSsdp(id)
  \/ \E id \in Ids : UpnpSoap(id)
  \/ \E id \in Ids : PcpDeleteIps(id)
  \/ \E id \in Ids : PcpDeleteSend(id)
  \/ \E id \in Ids : DeleteWave(id)
  \/ \E id \in Ids : UpnpDeleteSoap(id)
  \/ ExpireFire

\* An application that adds and deletes mappings and closes, and never probes
Next ==
  \/ /\ Fresh(MaxCalls, "add", MaxAdds)
     /\ \E i \in IntPorts, e \in ReqExtPorts, l \in ReqLifetimes : AddMapping(i, e, l)
  \/ /\ Fresh(MaxCalls, "add", MaxAdds)
     /\ \E i \in IntPorts, e \in ReqExtPorts, l \in ReqLifetimes : AddMappingPmp(i, e, l)
  \/ /\ Fresh(MaxCalls, "add", MaxAdds)
     /\ \E i \in IntPorts, e \in ReqExtPorts, l \in ReqLifetimes : AddMappingPcp(i, e, l)
  \/ /\ Fresh(MaxCalls, "add", MaxAdds)
     /\ \E i \in IntPorts, e \in ReqExtPorts, l \in ReqLifetimes, u \in ControlUrls \cup {NoControlUrl} :
          AddMappingUpnp(i, e, l, u)
  \/ Fresh(MaxCalls, "delete", MaxDeletes) /\ \E e \in ReqExtPorts : DeleteMapping(e)
  \/ Fresh(MaxCalls, "delete", MaxDeletes) /\ \E e \in ReqExtPorts : DeleteMappingPmp(e)
  \/ Fresh(MaxCalls, "delete", MaxDeletes) /\ \E e \in ReqExtPorts : DeleteMappingPcp(e)
  \/ Fresh(MaxCalls, "delete", MaxDeletes) /\ \E e \in ReqExtPorts : DeleteMappingUpnp(e)
  \/ Fresh(MaxCalls, "close", MaxCloses) /\ Close
  \/ Fresh(MaxCalls, "refresh", MaxRefreshes) /\ RefreshFire
  \/ Step

Spec == Init /\ [][Next]_vars

\* probeProtocolSupport() is in flight
Probing == \E id \in DOMAIN calls : calls[id].op = "probe"

\* An application that probes first, and when the probe has settled adds a mapping
\* with PortControl.addMapping or closes
NextProbe ==
  \/ nextId = 1 /\ ProbeProtocolSupport
  \/ \E id \in Ids : ProbeUrl(id)
  \/ /\ ~Probing
     /\ Fresh(1 + MaxCallsAfterProbe, "add", MaxAdds)
     /\ \E i \in IntPorts, e \in ReqExtPorts, l \in ReqLifetimes : AddMapping(i, e, l)
  \/ ~Probing /\ Fresh(1 + MaxCallsAfterProbe, "close", MaxCloses) /\ Close
  \/ Fresh(1 + MaxCallsAfterProbe, "refresh", MaxRefreshes) /\ RefreshFire
  \/ Step

SpecProbe == Init /\ [][NextProbe]_vars

\* An addMapping* call is in flight
Adding == \E id \in DOMAIN calls : calls[id].op = "add"

\* An application that adds mappings one after the other and then closes
NextClose ==
  \/ /\ ~Adding
     /\ invoked["close"] = 0
     /\ Fresh(MaxCalls, "add", MaxAddsBeforeClose)
     /\ \E i \in IntPorts, e \in ReqExtPorts, l \in ReqLifetimes :
          \/ AddMappingPmp(i, e, l)
          \/ AddMappingPcp(i, e, l)
          \/ AddMappingUpnp(i, e, l, NoControlUrl)
  \/ ~Adding /\ Fresh(MaxCalls, "close", MaxCloses) /\ Close
  \/ Fresh(MaxCalls, "refresh", MaxRefreshes) /\ RefreshFire
  \/ Step

SpecClose == Init /\ [][NextClose]_vars

\* close() is in flight
Closing == \E id \in DOMAIN calls : calls[id].op = "close"

\* Every step of a call in flight is taken in the end: each request and each
\* getPrivateIps() is raced against a timeout
FairSpecClose == SpecClose /\ WF_vars(Step)

\* The steps of the add calls in flight, and the expiry timers
AddStep ==
  \/ \E id \in Ids : PcpIps(id)
  \/ \E id \in Ids : PcpWave(id)
  \/ \E id \in Ids : PmpWave(id)
  \/ \E id \in Ids : UpnpSsdp(id)
  \/ \E id \in Ids : UpnpSoap(id)
  \/ ExpireFire

\* An application that adds mappings without waiting for the mapping before
NextPair ==
  \/ /\ Fresh(MaxCalls, "add", MaxConcurrentAdds)
     /\ \E i \in IntPorts, e \in ReqExtPorts, l \in ReqLifetimes : AddMappingPmp(i, e, l)
  \/ /\ Fresh(MaxCalls, "add", MaxConcurrentAdds)
     /\ \E i \in IntPorts, e \in ReqExtPorts, l \in ReqLifetimes : AddMappingPcp(i, e, l)
  \/ /\ Fresh(MaxCalls, "add", MaxConcurrentAdds)
     /\ \E i \in IntPorts, e \in ReqExtPorts, l \in ReqLifetimes :
          AddMappingUpnp(i, e, l, NoControlUrl)
  \/ Fresh(MaxCalls, "refresh", MaxRefreshes) /\ RefreshFire
  \/ AddStep

SpecPair == Init /\ [][NextPair]_vars

\* An addMapping* or deleteMapping* call is in flight
Busy == \E id \in DOMAIN calls : calls[id].op \in {"add", "delete"}

\* An application that makes its calls one after the other, where every request of
\* a wave is followed by itself: its reply, and the countdown of its timeout
NextRace ==
  \/ /\ ~Busy
     /\ Fresh(MaxRaceCalls, "add", MaxRaceCalls)
     /\ \E i \in IntPorts, e \in RaceExtPorts, l \in ReqLifetimes : RaceAddMappingPmp(i, e, l)
  \/ /\ ~Busy
     /\ Fresh(MaxRaceCalls, "add", MaxRaceCalls)
     /\ \E i \in IntPorts, e \in RaceExtPorts, l \in ReqLifetimes : AddMappingPcp(i, e, l)
  \/ /\ ~Busy
     /\ Fresh(MaxRaceCalls, "delete", MaxRaceCalls)
     /\ \E e \in ReqExtPorts : RaceDeleteMapping(e)
  \/ \E id \in Ids : PcpIps(id)
  \/ \E id \in Ids : PcpSend(id)
  \/ \E id \in Ids : PcpDeleteIps(id)
  \/ \E id \in Ids : PcpDeleteSendRequests(id)
  \/ \E id \in Ids : OnData(id)
  \/ \E id \in Ids : Countdown(id)

SpecRace == Init /\ [][NextRace]_vars

----------------------------------------------------------------------------
(* utils.longestPrefixMatch *)

\* The width of an IP address (32 in the program) and the length of the list of
\* private IPs that longestPrefixMatch is called with
AddrBits == 4
MaxIps == 2

\* The IP addresses: sequences of AddrBits bits
Addrs == [1..AddrBits -> {0, 1}]

\* utils.longestPrefixMatch(ipList, routerIp). For every IP of the list in turn,
\* the masks 1 .. AddrBits - 1 are tried, and at the first mask where
\* ip.match(routerIp, mask) is false, mask - 1 is pushed to prefixMatches: an IP that
\* matches under all these masks pushes nothing. The result is
\* ipList[prefixMatches.indexOf(Math.max.apply(null, prefixMatches))], which is
\* ipList[-1], undefined (here: the empty sequence), when prefixMatches is empty.
longestPrefixMatch(ipList, routerIp) ==
  LET match(ip, bits) == SubSeq(ip, 1, bits) = SubSeq(routerIp, 1, bits)
      Masks(i) == {mask \in 1..(AddrBits - 1) : ~match(ipList[i], mask)}
      pushing == {i \in DOMAIN ipList : Masks(i) # {}}
      pushed(k) == CHOOSE i \in pushing : Cardinality({j \in pushing : j <= i}) = k
      prefixMatches == [k \in 1..Cardinality(pushing) |-> Min(Masks(pushed(k))) - 1]
      maxIndex == Min({k \in DOMAIN prefixMatches :
                         prefixMatches[k] = Max(Range(prefixMatches))})
  IN IF pushing = {} THEN <<>> ELSE ipList[maxIndex]

\* A call longestPrefixMatch(ipList, routerIp) is under way
InitLpm ==
  /\ \E n \in 1..MaxIps, ipList \in [1..MaxIps -> Addrs], routerIp \in Addrs :
       calls = (1 :> [op |-> "longestPrefixMatch", ipList |-> SubSeq(ipList, 1, n),
                      routerIp |-> routerIp])
  /\ ret = NoRet
  /\ activeMappings = NoMappings
  /\ routerIpCache = <<>>
  /\ protocolSupportCache = NoSupportData
  /\ timers = {}
  /\ invoked = [kind \in Kinds |-> 0]

\* The call returns
LongestPrefixMatch ==
  /\ 1 \in DOMAIN calls
  /\ calls' = NoCalls
  /\ ret' = (1 :> Event(calls[1], "resolved",
                        longestPrefixMatch(calls[1].ipList, calls[1].routerIp)))
  /\ UNCHANGED <<activeMappings, routerIpCache, protocolSupportCache, timers, invoked>>

SpecLpm == InitLpm /\ [][LongestPrefixMatch]_vars

----------------------------------------------------------------------------
(* The properties *)

\* The events of the last step that are the return of a call with this api
Returns(apis) == {id \in DOMAIN ret : ret[id].call.api \in apis}

\* The addMapping calls in flight
AddMappingCalls == {id \in DOMAIN calls : calls[id].api = "addMapping"}

CacheUnset == "natPmp" \notin DOMAIN protocolSupportCache

ChainOrder == <<"natPmp", "pcp", "upnp">>

\* The engines were invoked in the order NAT-PMP, PCP, UPnP, each after a failure
\* Mapping of all the engines before it
InOrderAfterFailures(c) ==
  /\ Len(c.engines) \in 1 .. 3
  /\ c.engines = SubSeq(ChainOrder, 1, Len(c.engines))
  /\ Len(c.outcomes) \in {Len(c.engines) - 1, Len(c.engines)}
  /\ \A i \in 1 .. Len(c.engines) - 1 : c.outcomes[i] = -1

\* C1: without probe data, addMapping invokes NAT-PMP first, PCP only after a failure
\* Mapping of NAT-PMP and UPnP only after a failure Mapping of PCP too; the Mapping it
\* returns is the one of the last engine it invoked, which is the first that did not
\* fail, or UPnP's failure Mapping when all three failed.
C1_FallbackOrder ==
  CacheUnset =>
    /\ \A id \in AddMappingCalls : InOrderAfterFailures(calls[id])
    /\ \A id \in Returns({"addMapping"}) :
         ret[id].status = "resolved" =>
           LET c == ret[id].call
               m == ret[id].value
           IN /\ InOrderAfterFailures(c)
              /\ Len(c.outcomes) = Len(c.engines)
              /\ m.protocol = c.engines[Len(c.engines)]
              /\ m.externalPort = c.outcomes[Len(c.outcomes)]
              /\ m.externalPort = -1 => c.engines = ChainOrder

\* C1: NAT-PMP failed and PCP succeeded: addMapping returns the PCP Mapping
C1_Witness ==
  \E id \in Returns({"addMapping"}) :
    /\ ret[id].call.engines = <<"natPmp", "pcp">>
    /\ ret[id].status = "resolved"
    /\ ret[id].value.externalPort # -1

\* The one engine that probe data psc selects
Selected(psc, protocol) ==
  CASE protocol = "natPmp" -> psc.natPmp
    [] protocol = "pcp" -> ~psc.natPmp /\ psc.pcp
    [] protocol = "upnp" -> ~psc.natPmp /\ ~psc.pcp /\ psc.upnp
    [] OTHER -> FALSE

\* C2: with probe data, addMapping invokes at most one engine, the first supported one
\* in the order NAT-PMP, PCP, UPnP, and returns the Mapping of that engine, a success
\* or a failure, with no fallback.
C2_SingleEngine ==
  ~CacheUnset =>
    /\ \A id \in AddMappingCalls :
         /\ Len(calls[id].engines) = 1
         /\ Selected(protocolSupportCache, calls[id].engines[1])
    /\ \A id \in Returns({"addMapping"}) :
         LET c == ret[id].call
             m == ret[id].value
         IN /\ Len(c.engines) <= 1
            /\ Len(c.engines) = 1 =>
                 /\ Selected(protocolSupportCache, c.engines[1])
                 /\ ret[id].status = "resolved" =>
                      m.protocol = c.engines[1] /\ c.outcomes = <<m.externalPort>>

\* C2: PCP and UPnP are supported, NAT-PMP is not: the failure Mapping of PCP is returned
C2_Witness ==
  /\ ~CacheUnset
  /\ protocolSupportCache.upnp
  /\ \E id \in Returns({"addMapping"}) :
       /\ ret[id].call.engines = <<"pcp">>
       /\ ret[id].status = "resolved"
       /\ ret[id].value.externalPort = -1

NoneSupported ==
  /\ ~CacheUnset
  /\ ~protocolSupportCache.natPmp
  /\ ~protocolSupportCache.pcp
  /\ ~protocolSupportCache.upnp

\* A call of addMapping with probe data that says no protocol is supported starts no
\* call of an engine, leaves activeMappings as it is and returns a failure Mapping with
\* this errInfo
NoProtocolsFailure(errInfo) ==
  (NoneSupported /\ invoked'["add"] # invoked["add"]) =>
    /\ nextId \in DOMAIN ret'
    /\ ret'[nextId].call.api = "addMapping"
    /\ ret'[nextId].value.externalPort = -1
    /\ ret'[nextId].value.errInfo = errInfo
    /\ calls' = calls
    /\ activeMappings' = activeMappings

\* C3, as amended: when the probe data say that no protocol is supported, addMapping
\* sends nothing, leaves activeMappings unchanged and returns a failure Mapping
\* (externalPort = -1) whose errInfo is "No protocols are supported from last probe".
C3_NoProtocols == [][NoProtocolsFailure("No protocols are supported from last probe")]_vars

\* C3 as stated: the errInfo of that failure Mapping is "No protocols supported"
C3_AsStated == [][NoProtocolsFailure("No protocols supported")]_vars

\* C3: addMapping returned with no engine invoked
C3_Witness ==
  /\ NoneSupported
  /\ \E id \in Returns({"addMapping"}) : ret[id].call.engines = <<>>

----------------------------------------------------------------------------

\* The delete call that the step makes, refused or under way
DeleteCalled == IF nextId \in DOMAIN ret' THEN ret'[nextId].call ELSE calls'[nextId]

\* The external port has no entry, or for deleteMappingPmp, deleteMappingPcp and
\* deleteMappingUpnp an entry of another protocol
NoSuchMapping(api, extPort) ==
  \/ extPort \notin DOMAIN activeMappings
  \/ api = "deleteMappingPmp" /\ activeMappings[extPort].protocol # "natPmp"
  \/ api = "deleteMappingPcp" /\ activeMappings[extPort].protocol # "pcp"
  \/ api = "deleteMappingUpnp" /\ activeMappings[extPort].protocol # "upnp"

\* C4: deleteMapping for an external port without entry, and deleteMappingPmp,
\* deleteMappingPcp, deleteMappingUpnp for an entry of another protocol, are fulfilled
\* with false (never rejected), start no request, and leave activeMappings,
\* routerIpCache and the timers unchanged.
C4_UnknownMapping ==
  [][(invoked'["delete"] # invoked["delete"]
        /\ NoSuchMapping(DeleteCalled.api, DeleteCalled.extPort)) =>
       /\ nextId \in DOMAIN ret'
       /\ ret'[nextId].status = "resolved"
       /\ ret'[nextId].value = FALSE
       /\ ret'[nextId].call.sent = 0
       /\ calls' = calls
       /\ UNCHANGED <<activeMappings, routerIpCache, timers>>]_vars

\* C4: deleteMappingPcp was refused for an entry that NAT-PMP made
C4_Witness ==
  \E id \in Returns({"deleteMappingPcp"}) :
    /\ ret[id].call.stage = "guard"
    /\ ret[id].call.extPort \in DOMAIN activeMappings
    /\ activeMappings[ret[id].call.extPort].protocol = "natPmp"

\* The deleter that the controller invoked ran to its end
DeleterReturns == {id \in DOMAIN ret : ret[id].call.op = "delete" /\ ret[id].call.stage = "done"}

\* The call asked for the external port that the Mapping got
AddedAsRequested(m) == m.requested = m.externalPort

\* C5: after addMapping(P, P, L) succeeded, the first deleteMapping(P), answered
\* positively by the NAT, returns true and leaves no key P; a deleteMapping(P) without
\* an entry P returns false.
C5_RoundTrip ==
  /\ \A id \in DeleterReturns :
       LET c == ret[id].call
       IN (/\ c.api = "deleteMapping"
           /\ c.parent = 0
           /\ invoked["delete"] = 1
           /\ invoked["close"] = 0
           /\ AddedAsRequested(c.mapping)
           /\ c.confirmed) =>
            ret[id].value = TRUE /\ c.extPort \notin DOMAIN activeMappings
  /\ \A id \in Returns({"deleteMapping"}) :
       ret[id].call.stage = "guard" => ret[id].value = FALSE

\* C6: the deleter returns true exactly when the router confirmed the deletion; then
\* the entry is gone and its refresh timer is cancelled.
C6_TrueIffConfirmed ==
  \A id \in DeleterReturns :
    LET c == ret[id].call
    IN /\ ret[id].value = c.confirmed
       /\ ret[id].value = TRUE =>
            /\ c.extPort \notin DOMAIN activeMappings
            /\ \A t \in timers : t.kind = "refresh" => t.id # c.mapping.timeoutId

\* C7: when close() returns, activeMappings is empty and no refresh timer that was
\* pending when it was called still is.
C7_CloseLeavesNothing ==
  \A id \in Returns({"close"}) :
    /\ DOMAIN activeMappings = {}
    /\ \A t \in timers : t.id \notin ret[id].call.refreshTimers

\* The deletions of close call id that have not settled
Pending(id) == {k \in calls[id].deletions : k \in DOMAIN calls}

\* close call id waits for its deletions: one per key, each the deleter of its entry
CloseWaits(id) ==
  LET c == calls[id]
  IN /\ Cardinality(c.deletions) = Cardinality(c.extPorts)
     /\ c.children # {}
     /\ c.children = Pending(id)
     /\ \A k \in c.children :
          /\ calls[k].op = "delete"
          /\ calls[k].parent = id
          /\ calls[k].stage \in {"ips", "ips2", "wave", "soap"}
     /\ c.children = c.deletions => {calls[k].extPort : k \in c.children} = c.extPorts

\* close() has returned: all its deletions have settled, and there was none to start
\* when activeMappings was empty
CloseDone(id) ==
  LET c == ret[id].call
  IN /\ ret[id].status = "resolved"
     /\ \A k \in c.deletions : k \notin DOMAIN calls
     /\ c.extPorts = {} => c.deletions = {}

\* C8: close() starts one deletion per key of activeMappings, all at once, and returns
\* when the last of them has settled, which always happens, whatever the routers
\* answer; with an empty activeMappings it returns at once and starts nothing.
C8_CloseCompletes ==
  /\ [](\A id \in DOMAIN calls : calls[id].op = "close" => CloseWaits(id))
  /\ [](\A id \in Returns({"close"}) : CloseDone(id))
  /\ (Closing ~> ~Closing)

\* C8: close() has returned after the deletion of two mappings, one of which failed
C8_Witness ==
  \E id \in Returns({"close"}) :
    /\ Cardinality(ret[id].call.extPorts) = 2
    /\ Cardinality(DOMAIN activeMappings) = 1

\* C9: every key of activeMappings is the externalPort of its Mapping and is not -1;
\* for NAT-PMP and PCP it is a port that the router names in its reply, whatever port
\* the call asked for.
C9_KeyIsExternalPort ==
  \A ext \in DOMAIN activeMappings :
    /\ activeMappings[ext].externalPort = ext
    /\ ext # -1
    /\ activeMappings[ext].protocol \in {"natPmp", "pcp"} => ext \in GrantPorts

\* C9: a PCP Mapping that was asked for with external port 0 is stored under the port
\* the router chose
C9_Witness ==
  \E ext \in DOMAIN activeMappings :
    /\ activeMappings[ext].protocol = "pcp"
    /\ activeMappings[ext].requested = 0
    /\ ext \in GrantPorts

\* Mapping object m is a value of activeMappings
Stored(m) == \E ext \in DOMAIN activeMappings : activeMappings[ext].obj = m.obj

\* C10: when addMappingPmp, addMappingPcp or addMappingUpnp returns Mapping m,
\* m.externalPort is -1 exactly when m is not in activeMappings, and a successful m is
\* the entry of its external port.
C10_FailureIffNotStored ==
  \A id \in Returns({"addMappingPmp", "addMappingPcp", "addMappingUpnp"}) :
    ret[id].status = "resolved" =>
      LET m == ret[id].value
      IN /\ m.externalPort = -1 <=> ~Stored(m)
         /\ m.externalPort # -1 =>
              /\ m.externalPort \in DOMAIN activeMappings
              /\ activeMappings[m.externalPort].obj = m.obj

\* C10: addMappingPcp returned a successful Mapping
C10_Witness ==
  \E id \in Returns({"addMappingPcp"}) :
    /\ ret[id].status = "resolved"
    /\ ret[id].value.externalPort # -1
    /\ Stored(ret[id].value)

----------------------------------------------------------------------------

\* The calls of the NAT-PMP and the PCP engine that the step completes with a
\* successful Mapping
EngineSuccesses ==
  {id \in DOMAIN ret' : /\ ret'[id].call.op = "add"
                        /\ ret'[id].status = "resolved"
                        /\ ret'[id].call.protocol \in {"natPmp", "pcp"}
                        /\ ret'[id].call.mapping.externalPort # -1}

\* The timers that the step arms for the Mapping of call id
ArmedBy(id) == {t \in timers' \ timers : t.id = ret'[id].call.mapping.obj}

\* The step is the firing of a refresh timer: the timer is gone (one shot) and the
\* engine that armed it is invoked with the internal port, the external port and
\* the lifetime bound to it
RefreshFires ==
  \E t \in timers :
    /\ t.kind = "refresh"
    /\ timers' = timers \ {t}
    /\ nextId \in DOMAIN calls'
    /\ calls'[nextId].op = "add"
    /\ calls'[nextId].protocol = t.protocol
    /\ calls'[nextId].engines = <<t.protocol>>
    /\ calls'[nextId].intPort = t.intPort
    /\ calls'[nextId].extPort = t.extPort
    /\ calls'[nextId].lifetime = t.lifetime

C12_DailyRefresh ==
  [][\A id \in EngineSuccesses :
       LET c == ret'[id].call
           m == c.mapping
       IN c.lifetime = 0 =>
            \E t \in timers' :
              /\ ArmedBy(id) = {t}
              /\ t.kind = "refresh"
              /\ t.delay = DaySeconds
              /\ t.lifetime = 0
              /\ t.intPort = c.intPort
              /\ t.extPort = m.externalPort]_vars

\* C13: a successful NAT-PMP or PCP add with requested lifetime L # 0 that was granted
\* exactly L arms exactly one timer, an expiry at L seconds, and no refresh handle;
\* when an expiry timer fires, the entry of its external port is removed and no call
\* is made and nothing is sent.
C13_ExpiryArmed ==
  [][/\ \A id \in EngineSuccesses :
          LET c == ret'[id].call
              m == c.mapping
          IN (c.lifetime # 0 /\ m.lifetime = c.lifetime) =>
               \E t \in timers' :
                 /\ ArmedBy(id) = {t}
                 /\ t.kind = "expire"
                 /\ t.delay = c.lifetime
                 /\ t.extPort = m.externalPort
                 /\ m.timeoutId = NoTimeout
     /\ \A t \in timers \ timers' :
          t.kind = "expire" =>
            /\ activeMappings' = DeleteKey(activeMappings, t.extPort)
            /\ calls' = calls
            /\ invoked' = invoked
            /\ ret' = NoRet]_vars

\* C13: the expiry timer of a NAT-PMP or PCP entry that was granted its whole
\* requested lifetime is pending
C13_Witness ==
  \E t \in timers :
    /\ t.kind = "expire"
    /\ t.protocol \in {"natPmp", "pcp"}
    /\ t.extPort \in DOMAIN activeMappings
    /\ activeMappings[t.extPort].obj = t.id
    /\ activeMappings[t.extPort].lifetime = activeMappings[t.extPort].requestedLifetime

----------------------------------------------------------------------------

\* Something is under way that can remove or replace the entry of external port ext
\* without a call of the application: a timer bound to ext is pending, or a refresh
\* of ext is in flight
WillExpire(ext) ==
  \/ \E t \in timers : t.extPort = ext
  \/ \E id \in DOMAIN calls :
       calls[id].op = "add" /\ calls[id].api = "refresh" /\ calls[id].extPort = ext

\* C14: an entry that was created with a non-zero requested lifetime is removed when
\* it expires, with no explicit delete: as long as it is in activeMappings, a timer
\* of its external port is pending or a refresh of it is in flight, also after a
\* refresh of it failed.
C14_RemovedAtExpiry ==
  \A ext \in DOMAIN activeMappings :
    activeMappings[ext].requestedLifetime # 0 => WillExpire(ext)

----------------------------------------------------------------------------

\* The calls by which the application adds a mapping
AddApis == {"addMapping", "addMappingPmp", "addMappingPcp", "addMappingUpnp"}

\* C15: no call of addMapping, addMappingPmp, addMappingPcp or addMappingUpnp is
\* rejected, and none is left with a promise that can never settle: each one is
\* fulfilled with a Mapping, with externalPort = -1 after a failure.
C15_AddResolves ==
  /\ \A id \in Returns(AddApis) :
       /\ ret[id].status = "resolved"
       /\ ret[id].value.externalPort = ret[id].call.mapping.externalPort
  /\ \A id \in DOMAIN calls :
       (calls[id].op = "add" /\ calls[id].api \in AddApis) => calls[id].stage # "hung"

----------------------------------------------------------------------------

\* C16: probeProtocolSupport is never rejected: it is fulfilled with the three
\* booleans natPmp, pcp and upnp, and protocolSupportCache then holds these three and
\* the UPnP control URL of this call.
C16_ProbeResolves ==
  \A id \in Returns({"probeProtocolSupport"}) :
    /\ ret[id].status = "resolved"
    /\ ret[id].value \in [{"natPmp", "pcp", "upnp"} -> BOOLEAN]
    /\ protocolSupportCache = [natPmp |-> ret[id].value["natPmp"],
                               pcp |-> ret[id].value["pcp"],
                               upnp |-> ret[id].value["upnp"],
                               upnpControlUrl |-> ret[id].call.upnpControlUrl]

----------------------------------------------------------------------------

\* C17: probeUpnpSupport returns true when the probe's AddPortMapping was answered
\* with the error ConflictInMappingEntry, although its Mapping is a failure Mapping
\* that is not in activeMappings; after any other failure it returns false (and
\* after a success true).
C17_ConflictIsSupport ==
  \A id \in Returns({"probeUpnpSupport"}) :
    ret[id].status = "resolved" =>
      LET m == ret[id].call.mapping
          conflict == m.errInfo = "AddPortMapping Error: ConflictInMappingEntry"
      IN /\ conflict => (ret[id].value = TRUE /\ m.externalPort = -1 /\ ~Stored(m))
         /\ (m.externalPort = -1 /\ ~conflict) => ret[id].value = FALSE
         /\ m.externalPort # -1 => ret[id].value = TRUE

\* C17: probeUpnpSupport returned true for a failure Mapping
C17_Witness ==
  \E id \in Returns({"probeUpnpSupport"}) :
    /\ ret[id].status = "resolved"
    /\ ret[id].value = TRUE
    /\ ret[id].call.mapping.externalPort = -1
    /\ ret[id].call.sent = 1

----------------------------------------------------------------------------

\* The deletions of this protocol whose requests the step sends
DeletionSent(protocol) ==
  {id \in DOMAIN calls' : /\ calls'[id].op = "delete"
                          /\ calls'[id].protocol = protocol
                          /\ calls'[id].stage = "wave"
                          /\ ~(id \in DOMAIN calls /\ calls[id].stage = "wave")}

\* The deleters of this protocol that return in the step
DeleterReturned(protocol) ==
  {id \in DOMAIN ret' : /\ ret'[id].call.op = "delete"
                        /\ ret'[id].call.stage = "done"
                        /\ ret'[id].call.protocol = protocol}

\* The deleter that returns as id has removed the entry and cancelled its refresh
Removed(id) ==
  /\ ret'[id].call.extPort \notin DOMAIN activeMappings'
  /\ \A t \in timers' : t.kind = "refresh" => t.id # ret'[id].call.mapping.timeoutId

\* C18: the deletion of a PCP mapping sends a request with lifetime 0, external port 0
\* and the nonce of the entry in activeMappings; it returns true exactly when a
\* response has result code 0 or 8, and then the entry is removed and its refresh
\* timer cancelled.
C18_PcpDeletion ==
  [][/\ \A id \in DeletionSent("pcp") :
          LET r == calls'[id].request
              ext == calls'[id].extPort
          IN /\ r.lifetime = 0
             /\ r.extPort = 0
             /\ ext \in DOMAIN activeMappings
             /\ r.intPort = activeMappings[ext].internalPort
             /\ r.nonce = activeMappings[ext].nonce
             /\ r.nonce # NoNonce
     /\ \A id \in DeleterReturned("pcp") :
          /\ ret'[id].value = TRUE <=> ret'[id].call.resultCodes \cap {0, 8} # {}
          /\ ret'[id].value = TRUE => Removed(id)]_vars

\* C19: the deletion of a NAT-PMP mapping sends a request with external port 0 and
\* lifetime 0 for the internal port of the entry; it returns true exactly when a
\* response has result code 0, and then the entry is removed and its refresh timer
\* cancelled; when it returns false, activeMappings and the timers are as they were.
C19_PmpDeletion ==
  [][/\ \A id \in DeletionSent("natPmp") :
          LET r == calls'[id].request
              ext == calls'[id].extPort
          IN /\ r.lifetime = 0
             /\ r.extPort = 0
             /\ ext \in DOMAIN activeMappings
             /\ r.intPort = activeMappings[ext].internalPort
     /\ \A id \in DeleterReturned("natPmp") :
          /\ ret'[id].value = TRUE <=> 0 \in ret'[id].call.resultCodes
          /\ ret'[id].value = TRUE => Removed(id)
          /\ ret'[id].value = FALSE => UNCHANGED <<activeMappings, timers>>]_vars

----------------------------------------------------------------------------

\* The Mappings that the engines and the controller have produced: the values of
\* activeMappings and the Mappings of the add calls that have just settled
ProducedMappings ==
  {activeMappings[ext] : ext \in DOMAIN activeMappings}
    \cup {ret[id].call.mapping : id \in {k \in DOMAIN ret : ret[k].call.op = "add"}}

\* C20, as amended: a Mapping has a nonce exactly when it is a successful PCP Mapping;
\* a Mapping of another protocol never has one, and neither has a failure Mapping of
\* PCP, whose nonce is only taken from a reply.
C20_NonceIffPcpSuccess ==
  \A m \in ProducedMappings :
    m.nonce # NoNonce <=> (m.protocol = "pcp" /\ m.externalPort # -1)

\* C20 as stated: a Mapping has a nonce exactly when its protocol is PCP
C20_AsStated ==
  \A m \in ProducedMappings : m.protocol = "pcp" <=> m.nonce # NoNonce

\* C20: the PCP engine sent its requests and returned a failure Mapping, which has
\* no nonce
C20_Witness ==
  /\ \E id \in Returns({"addMappingPcp", "refresh"}) :
       /\ ret[id].status = "resolved"
       /\ ret[id].call.mapping.protocol = "pcp"
       /\ ret[id].call.mapping.externalPort = -1
       /\ ret[id].call.mapping.nonce = NoNonce
       /\ ret[id].call.sent > 0

----------------------------------------------------------------------------

\* No element is twice in the sequence
NoDuplicates(s) == \A i, j \in DOMAIN s : s[i] = s[j] => i = j

\* Sequence t is sequence s with elements pushed to its end
IsPrefix(s, t) == Len(s) <= Len(t) /\ SubSeq(t, 1, Len(s)) = s

\* C21: routerIpCache never has a duplicate; a step only pushes to its end (nothing is
\* removed or reordered), and every router it pushes is one from which the call
\* that takes the step has received a successful reply (result code 0) when the
\* step is over.
C21_CacheOfSuccessfulRepliers ==
  [][LET After(id) == IF id \in DOMAIN ret' THEN ret'[id].call ELSE calls'[id]
         Successes(id) == {k \in DOMAIN After(id).responses :
                             /\ ~After(id).responses[k].null
                             /\ After(id).responses[k].resultCode = 0}
         SuccessfulRepliers(id) == {calls[id].routerIps[i] : i \in Successes(id)}
     IN /\ NoDuplicates(routerIpCache')
        /\ IsPrefix(routerIpCache, routerIpCache')
        /\ \A ip \in Range(routerIpCache') \ Range(routerIpCache) :
             \E id \in DOMAIN calls :
               calls[id].op = "add" /\ ip \in SuccessfulRepliers(id)]_vars

----------------------------------------------------------------------------

\* Mapping m has a refresh handle: its timeoutId is set, or a refresh timer that
\* was armed for it is pending
Refreshed(m) ==
  \/ m.timeoutId # NoTimeout
  \/ \E t \in timers : t.kind = "refresh" /\ t.id = m.obj

\* C22: a Mapping has a refresh handle only if its externalPort is not -1 and its
\* requested lifetime is 0 or the lifetime it was granted is smaller than the
\* requested one; no timer at all is armed for a failure Mapping.
C22_RefreshOnlyWhenShort ==
  \A m \in ProducedMappings :
    /\ Refreshed(m) =>
         /\ m.externalPort # -1
         /\ m.requestedLifetime = 0 \/ m.lifetime < m.requestedLifetime
    /\ m.externalPort = -1 =>
         /\ m.timeoutId = NoTimeout
         /\ \A t \in timers : t.id # m.obj

\* C22: one entry has a refresh handle (granted 1 second of the 2 requested) and
\* another, which was granted more than it asked for, has none
C22_Witness ==
  \E e1, e2 \in DOMAIN activeMappings :
    /\ activeMappings[e1].requestedLifetime = 2
    /\ activeMappings[e1].lifetime = 1
    /\ Refreshed(activeMappings[e1])
    /\ activeMappings[e2].requestedLifetime = 1
    /\ activeMappings[e2].lifetime = 2
    /\ ~Refreshed(activeMappings[e2])

----------------------------------------------------------------------------

\* C23: the lifetime of every Mapping in activeMappings that was requested with a
\* lifetime other than 0 is at most the requested lifetime, whatever lifetime the
\* reply of the router carries.
C23_GrantWithinRequest ==
  \A ext \in DOMAIN activeMappings :
    activeMappings[ext].requestedLifetime # 0 =>
      activeMappings[ext].lifetime <= activeMappings[ext].requestedLifetime

----------------------------------------------------------------------------

\* C24: a successful add of the UPnP engine stores a Mapping with the requested
\* external port and the requested lifetime and without a refresh handle; it arms
\* one timer, an expiry at the requested lifetime, when the lifetime is not 0, and no
\* timer when it is 0; no refresh ever invokes the UPnP engine.
C24_UpnpNeverRefreshed ==
  [][/\ \A id \in {k \in DOMAIN ret' : /\ ret'[k].call.op = "add"
                                       /\ ret'[k].status = "resolved"
                                       /\ ret'[k].call.protocol = "upnp"
                                       /\ ret'[k].call.mapping.externalPort # -1} :
          LET c == ret'[id].call
              m == c.mapping
          IN /\ m.externalPort = c.extPort
             /\ m.lifetime = c.lifetime
             /\ c.extPort \in DOMAIN activeMappings'
             /\ activeMappings'[c.extPort] = m
             /\ m.timeoutId = NoTimeout
             /\ c.lifetime = 0 => ArmedBy(id) = {}
             /\ c.lifetime # 0 =>
                  \E t \in timers' :
                    /\ ArmedBy(id) = {t}
                    /\ t.kind = "expire"
                    /\ t.delay = c.lifetime
                    /\ t.extPort = c.extPort
     /\ \A t \in timers' : t.kind = "refresh" => t.protocol # "upnp"
     /\ invoked'["refresh"] # invoked["refresh"] => calls'[nextId].protocol # "upnp"]_vars

\* C24: addMappingUpnp with lifetime 0 has returned a successful Mapping, and no
\* timer is pending
C24_Witness ==
  /\ timers = {}
  /\ \E id \in Returns({"addMappingUpnp"}) :
       /\ ret[id].status = "resolved"
       /\ ret[id].call.lifetime = 0
       /\ ret[id].value.externalPort = ret[id].call.extPort
       /\ Stored(ret[id].value)

----------------------------------------------------------------------------

\* C25: when adds that got the same external port have completed one after the other,
\* one Mapping, the later one, is in the slot of that port, and the timer of the
\* earlier entry was cancelled: at most one timer is pending for the port, and it is
\* the timer of the Mapping in the slot.
C25_OneTimerPerPort ==
  LET TimersOf(ext) == {t \in timers : t.extPort = ext}
  IN \A ext \in DOMAIN activeMappings :
       /\ activeMappings[ext].externalPort = ext
       /\ Cardinality(TimersOf(ext)) <= 1
       /\ \A t \in TimersOf(ext) : t.id = activeMappings[ext].obj

----------------------------------------------------------------------------

\* C26: when the request of a deletion is sent, the refresh timer of the entry has
\* been cancelled: no refresh timer is pending for an external port whose deletion is
\* in flight (its request sent and not answered yet), and none fires then.
C26_DeleteCancelsRefresh ==
  [][LET DeletionsInFlight(cs, ext) ==
           {id \in DOMAIN cs : /\ cs[id].op = "delete"
                               /\ cs[id].extPort = ext
                               /\ cs[id].stage \in {"wave", "soap"}}
     IN /\ \A t \in timers' :
             t.kind = "refresh" => DeletionsInFlight(calls', t.extPort) = {}
        /\ \A t \in timers \ timers' :
             (t.kind = "refresh" /\ invoked'["refresh"] # invoked["refresh"]) =>
               DeletionsInFlight(calls, t.extPort) = {}]_vars

----------------------------------------------------------------------------

----------------------------------------------------------------------------

\* C28: a wave is over as soon as one of its requests has a usable reply (a reply
\* with result code 0): no call waits for the other targets of a wave that has one.
C28_WaveEndsAtFirstReply ==
  \A id \in {k \in DOMAIN calls : calls[k].stage \in {"race", "race1", "race2"}} :
    \A i \in DOMAIN calls[id].responses :
      calls[id].responses[i].null \/ calls[id].responses[i].resultCode # 0

----------------------------------------------------------------------------

\* C29: the Mapping of an add is built from the reply that arrived first in its
\* wave, whatever the place of the replying router in the list of targets.
C29_FirstArrivalWins ==
  \A id \in {k \in DOMAIN ret : /\ ret[k].call.op = "add"
                                /\ ret[k].status = "resolved"
                                /\ ret[k].call.arrivals # <<>>} :
    LET c == ret[id].call
        r == c.responses[c.arrivals[1]]
    IN /\ ret[id].value.externalPort = r.externalPort
       /\ ret[id].value.lifetime = r.lifetime

----------------------------------------------------------------------------

\* C30: the socket of a request is released when its reply arrives or its timeout
\* fires: an open socket belongs to a request without a reply yet, made by a call
\* that has not completed.
C30_SocketsReleased ==
  \A rid \in {k \in DOMAIN calls : calls[k].op = "request" /\ calls[k].socket = "open"} :
    /\ calls[rid].stage = "pending"
    /\ calls[rid].parent \in DOMAIN calls

----------------------------------------------------------------------------

\* C31: the socket of the SSDP discovery is released when the collection window
\* ends: no UPnP add or probe has completed with the socket of its discovery open.
C31_SsdpSocketReleased ==
  \A id \in DOMAIN ret :
    ret[id].call.op = "add" => ret[id].call.ssdpSocket # "open"

----------------------------------------------------------------------------

\* C32: the first wave of a NAT-PMP or PCP add goes to routerIpCache followed by the
\* default routers of the host's subnets, without duplicates; the second wave goes
\* to the default routers that were not in the first wave, and only after a first
\* wave without a reply; the call returns a failure Mapping only after its second
\* wave.
C32_TwoWaves ==
  [][LET Engine(c) == c.op = "add" /\ c.protocol \in {"natPmp", "pcp"}
         Enters(id, stages) == /\ calls'[id].stage \in stages
                               /\ id \in DOMAIN calls => calls[id].stage \notin stages
     IN /\ \A id \in DOMAIN calls' :
             Engine(calls'[id]) =>
               /\ Enters(id, {"wave", "wave1"}) =>
                    /\ calls'[id].routerIps = arrAdd(routerIpCache, filterRouterIps)
                    /\ NoDuplicates(calls'[id].routerIps)
               /\ Enters(id, {"wave2"}) =>
                    /\ calls[id].stage = "wave1"
                    /\ calls'[id].routerIps = arrDiff(ROUTER_IPS, calls[id].routerIps)
        /\ \A id \in DOMAIN ret' :
             (/\ Engine(ret'[id].call)
              /\ ret'[id].status = "resolved"
              /\ ret'[id].call.mapping.externalPort = -1) =>
               id \in DOMAIN calls /\ calls[id].stage = "wave2"]_vars

----------------------------------------------------------------------------

\* C33: an add whose wave was answered, and only with result codes other than 0,
\* returns a failure Mapping: externalPort is -1, no timer is armed for it, and it
\* is not in activeMappings.
C33_NegativeReplyFails ==
  \A id \in DOMAIN ret :
    (/\ ret[id].call.op = "add"
     /\ ret[id].status = "resolved"
     /\ ret[id].call.arrivals # <<>>
     /\ \A i \in DOMAIN ret[id].call.responses :
          ret[id].call.responses[i].null \/ ret[id].call.responses[i].resultCode # 0) =>
      /\ ret[id].value.externalPort = -1
      /\ \A t \in timers : t.id # ret[id].value.obj
      /\ \A ext \in DOMAIN activeMappings : activeMappings[ext].obj # ret[id].value.obj

----------------------------------------------------------------------------

\* C34: when the add that a refresh timer made succeeds, its Mapping is stored under
\* the external port of the Mapping it refreshes (the port bound in the timer), so
\* that no stale entry is left under another key, and at most one refresh timer is
\* pending for that port.
C34_RefreshKeepsSlot ==
  [][\A id \in DOMAIN ret' :
       (/\ ret'[id].call.api = "refresh"
        /\ ret'[id].status = "resolved"
        /\ ret'[id].value.externalPort # -1) =>
         LET old == ret'[id].call.extPort
         IN /\ ret'[id].value.externalPort = old
            /\ old \in DOMAIN activeMappings'
            /\ activeMappings'[old] = ret'[id].value
            /\ Cardinality({t \in timers' : t.kind = "refresh" /\ t.extPort = old}) <= 1]_vars

----------------------------------------------------------------------------

\* C35: the add that a refresh timer makes runs with the routerIpCache that the
\* application's calls share, as the call did that armed the timer.
C35_RefreshSharesCache ==
  \A id \in DOMAIN calls :
    (calls[id].op = "add" /\ calls[id].api = "refresh") => calls[id].routerIpCache = "shared"

----------------------------------------------------------------------------

\* C36: the deleter of a UPnP Mapping is bound to the control URL that AddPortMapping
\* was posted to; a UPnP deletion makes no discovery and posts one DeletePortMapping
\* to that URL; it returns true exactly after HTTP 200, and then the entry is not
\* in activeMappings.
C36_UpnpDeleteUsesControlUrl ==
  [][/\ \A id \in DOMAIN ret' :
          (/\ ret'[id].call.op = "add"
           /\ ret'[id].call.protocol = "upnp"
           /\ ret'[id].call.mapping.externalPort # -1) =>
            /\ ret'[id].call.controlUrl \in ControlUrls
            /\ ret'[id].call.mapping.deleter.controlUrl = ret'[id].call.controlUrl
     /\ \A id \in DOMAIN calls' :
          (calls'[id].op = "delete" /\ calls'[id].protocol = "upnp") =>
            /\ calls'[id].stage = "soap"
            /\ calls'[id].controlUrl = calls'[id].mapping.deleter.controlUrl
     /\ \A id \in DOMAIN ret' :
          (ret'[id].call.op = "delete" /\ ret'[id].call.protocol = "upnp") =>
            /\ ret'[id].call.sent = 1
            /\ ret'[id].call.controlUrl \in ControlUrls
            /\ ret'[id].value = ret'[id].call.confirmed
            /\ ret'[id].value => ret'[id].call.extPort \notin DOMAIN activeMappings']_vars

\* C36: the deleter of a UPnP Mapping has returned true after HTTP 200
C36_Witness ==
  \E id \in DOMAIN ret :
    /\ ret[id].call.op = "delete"
    /\ ret[id].call.protocol = "upnp"
    /\ ret[id].call.confirmed
    /\ ret[id].value
    /\ ret[id].call.controlUrl \in ControlUrls
    /\ ret[id].call.extPort \notin DOMAIN activeMappings

----------------------------------------------------------------------------

\* C37: a PCP deletion whose first wave has brought no reply with result code 0 or 8
\* sends its requests to the remaining default routers too: it returns false only
\* after it has sent to every router of its first wave and of ROUTER_IPS.
C37_PcpDeleteTwoWaves ==
  \A id \in DOMAIN ret :
    (/\ ret[id].call.op = "delete"
     /\ ret[id].call.protocol = "pcp"
     /\ ret[id].call.sent > 0
     /\ ret[id].call.resultCodes \cap SuccessCodes("pcp") = {}) =>
      ret[id].call.sent = Len(arrAdd(ret[id].call.routerIps, ROUTER_IPS))

----------------------------------------------------------------------------

\* C38: for a list of private IPs that is not empty, longestPrefixMatch returns the
\* IP of the list that has the longest run of leading bits in common with routerIp,
\* and the earliest such IP when several have; also when an IP is routerIp itself or
\* differs from it in the last bit only.
C38_LongestPrefixMatch ==
  \A id \in DOMAIN ret :
    LET ipList == ret[id].call.ipList
        routerIp == ret[id].call.routerIp
        common(ip) == Max({k \in 0..AddrBits : SubSeq(ip, 1, k) = SubSeq(routerIp, 1, k)})
        longest == Max({common(ipList[i]) : i \in DOMAIN ipList})
    IN ret[id].value = ipList[Min({i \in DOMAIN ipList : common(ipList[i]) = longest})]

----------------------------------------------------------------------------

\* C39: an expiry timer removes only the Mapping that armed it: when the entry under
\* its external port is one that a later add stored there, the timer that fires
\* leaves activeMappings as it is.
C39_ExpiryRemovesOwnMapping ==
  [][\A t \in timers \ timers' :
       (/\ t.kind = "expire"
        /\ t.extPort \in DOMAIN activeMappings
        /\ activeMappings[t.extPort].obj # t.id) =>
         activeMappings' = activeMappings]_vars

----------------------------------------------------------------------------

\* C40: a probe is an add of 120 seconds on the probe port of its protocol. When it
\* returns after its add succeeded, it returns true, its Mapping is in
\* activeMappings and a timer of that Mapping is pending; the Mapping of a probe
\* leaves its slot only when a timer of its external port fires, when a deletion of
\* that port is in flight, or when an add stores a Mapping under that port.
C40_ProbeIsRealAdd ==
  [][LET ProbePorts == {NAT_PMP_PROBE_PORT, PCP_PROBE_PORT, UPNP_PROBE_PORT}
         ProbePort(api) == CASE api = "probePmpSupport" -> NAT_PMP_PROBE_PORT
                             [] api = "probePcpSupport" -> PCP_PROBE_PORT
                             [] OTHER -> UPNP_PROBE_PORT
     IN /\ \A id \in DOMAIN ret' :
             ret'[id].call.api \in ProbeApis =>
               LET c == ret'[id].call
               IN /\ c.intPort = ProbePort(c.api)
                  /\ c.extPort = ProbePort(c.api)
                  /\ c.lifetime = ProbeLifetime
                  /\ (ret'[id].status = "resolved" /\ c.mapping.externalPort # -1) =>
                       /\ ret'[id].value = TRUE
                       /\ c.mapping.externalPort \in DOMAIN activeMappings'
                       /\ activeMappings'[c.mapping.externalPort] = c.mapping
                       /\ \E t \in timers' \ timers :
                            t.id = c.mapping.obj /\ t.extPort = c.mapping.externalPort
        /\ \A ext \in DOMAIN activeMappings :
             (/\ activeMappings[ext].internalPort \in ProbePorts
              /\ ext \in DOMAIN activeMappings' => activeMappings'[ext] # activeMappings[ext]) =>
               \/ \E t \in timers \ timers' : t.extPort = ext
               \/ \E id \in DOMAIN calls : calls[id].op = "delete" /\ calls[id].extPort = ext
               \/ \E id \in DOMAIN ret' :
                    ret'[id].call.op = "add" /\ ret'[id].call.mapping.externalPort = ext]_vars

\* C40: probePmpSupport has returned true, and the Mapping of its add is in
\* activeMappings with its refresh timer pending
C40_Witness ==
  \E id \in DOMAIN ret :
    /\ ret[id].call.api = "probePmpSupport"
    /\ ret[id].status = "resolved"
    /\ ret[id].value = TRUE
    /\ ret[id].call.mapping.externalPort \in DOMAIN activeMappings
    /\ activeMappings[ret[id].call.mapping.externalPort] = ret[id].call.mapping
    /\ \E t \in timers : t.id = ret[id].call.mapping.obj /\ t.kind = "refresh"

====
